---- MODULE Spec2Model ----
(***************************************************************************)
(* A model of the Anaml Terraform provider's resource mapper: the role     *)
(* token tables, the Source variant composer and flattener, the Entity     *)
(* mapper and the Create/Read/Update/Delete handlers of Sources, Entities  *)
(* and the Cluster data source.                                            *)
(*                                                                         *)
(* Representation of Go values:                                            *)
(*   - a Go string that is only compared is a TLA+ string;                 *)
(*   - a resource id / identifier string is a sequence of one-character    *)
(*     strings (<<"4", "2">> is "42", <<>> is ""), so that strconv.Itoa    *)
(*     and strconv.Atoi are computed digit by digit;                       *)
(*   - a pointer *T or an interface{} holding nil or a T is a sequence of  *)
(*     length 0 (nil) or 1 (<<v>>);                                        *)
(*   - a Terraform block list with MaxItems 1 is a sequence of length 0    *)
(*     or 1 of block records.                                              *)
(***************************************************************************)
EXTENDS Integers, Sequences, FiniteSets, TLC

VARIABLES
    rolePc,        \* position of the role-mapping run: "input", "backend", "frontend"
    roleFront,     \* the frontend role tokens given to mapRolesToBackend
    roleBack,      \* the []Role returned by mapRolesToBackend (Role.Type of each)
    roleAgain,     \* the []string returned by mapRolesToFrontend(roleBack)
    composePc,     \* position of the composer run: "input", "composed"
    composeIn,     \* the ResourceData given to composeSource
    composeOut,    \* what composeSource returned for it
    composeBack,   \* what the flatteners of resourceSourceRead made of composeOut
    tripPc,        \* position of a mapper run: "input", "there", "back"
    tripIn,        \* the value the run starts from
    tripMid,       \* the value after the first mapping
    tripOut,       \* the value after the second mapping
    kind,          \* the resource type of the instance: "source", "entity", "cluster"
    data,          \* the instance's schema.ResourceData: its id and attributes
    store,         \* the backend's objects of that type, by id (nil or <<object>>)
    nextId,        \* the id the backend assigns next
    last           \* the last handler call: operation, error, backend calls, the data
                   \* it was given, and the operation and error of the call before it

roleVars == <<rolePc, roleFront, roleBack, roleAgain>>

composeVars == <<composePc, composeIn, composeOut, composeBack>>

tripVars == <<tripPc, tripIn, tripMid, tripOut>>

crudVars == <<kind, data, store, nextId, last>>

vars == <<roleVars, composeVars, tripVars, crudVars>>

\* ------------------------------------------------------------------------
\* Bounds
\* ------------------------------------------------------------------------

\* longest list of role tokens handed to the role mapping
MaxRoles == 2

\* largest id the backend assigns
MaxId == 2

\* longest list of identifier strings handed to expandIdentifierList
MaxIds == 3

\* longest entities list of a composite Entity record
MaxEntities == 2

\* longest list of masking rules of an access rule
MaxRules == 3

\* ------------------------------------------------------------------------
\* Generic helpers
\* ------------------------------------------------------------------------

\* all sequences over S of length at most n
RECURSIVE SeqsUpTo(_, _)
SeqsUpTo(S, n) ==
    IF n = 0 THEN {<<>>}
    ELSE LET shorter == SeqsUpTo(S, n - 1)
         IN  shorter \cup {Append(s, x) : s \in {t \in shorter : Len(t) = n - 1}, x \in S}

\* ------------------------------------------------------------------------
\* Role tokens (models.go)
\* ------------------------------------------------------------------------

validRoles ==
    << "admin_attributes", "admin_branch_perms", "admin_groups", "admin_projects",
       "admin_schedules", "admin_system", "admin_users", "admin_webhooks",
       "author", "edit_projects", "run_caching", "run_event_store",
       "run_featuregen", "run_monitoring", "super_user", "view_reports" >>

ValidRoleSet == {validRoles[i] : i \in DOMAIN validRoles}

\* one step of the loop of mapRolesToBackend: the Role appended for token v,
\* as a sequence of length 0 (fell through every case) or 1
roleToBackend(v) ==
    IF v = "admin_attributes" THEN <<"adminattributes">>
    ELSE IF v = "admin_branch_perms" THEN <<"adminbranchperms">>
    ELSE IF v = "admin_groups" THEN <<"admingroups">>
    ELSE IF v = "admin_projects" THEN <<"adminprojects">>
    ELSE IF v = "admin_schedules" THEN <<"adminschedules">>
    ELSE IF v = "admin_system" THEN <<"adminsystem">>
    ELSE IF v = "admin_users" THEN <<"adminusers">>
    ELSE IF v = "admin_webhooks" THEN <<"adminwebhooks">>
    ELSE IF v = "author" THEN <<"author">>
    ELSE IF v = "edit_projects" THEN <<"editprojects">>
    ELSE IF v = "run_caching" THEN <<"runcaching">>
    ELSE IF v = "run_event_store" THEN <<"runeventstore">>
    ELSE IF v = "run_featuregen" THEN <<"runfeaturegen">>
    ELSE IF v = "run_monitoring" THEN <<"runmonitoring">>
    ELSE IF v = "super_user" THEN <<"superuser">>
    ELSE IF v = "view_reports" THEN <<"viewreports">>
    ELSE <<>>

\* one step of the loop of mapRolesToFrontend (note the literal
\* "runevent_store" of the source)
roleToFrontend(t) ==
    IF t = "adminattributes" THEN <<"admin_attributes">>
    ELSE IF t = "adminbranchperms" THEN <<"admin_branch_perms">>
    ELSE IF t = "admingroups" THEN <<"admin_groups">>
    ELSE IF t = "adminprojects" THEN <<"admin_projects">>
    ELSE IF t = "adminschedules" THEN <<"admin_schedules">>
    ELSE IF t = "adminsystem" THEN <<"admin_system">>
    ELSE IF t = "adminusers" THEN <<"admin_users">>
    ELSE IF t = "adminwebhooks" THEN <<"admin_webhooks">>
    ELSE IF t = "author" THEN <<"author">>
    ELSE IF t = "editprojects" THEN <<"edit_projects">>
    ELSE IF t = "runcaching" THEN <<"run_caching">>
    ELSE IF t = "runevent_store" THEN <<"run_event_store">>
    ELSE IF t = "runfeaturegen" THEN <<"run_featuregen">>
    ELSE IF t = "runmonitoring" THEN <<"run_monitoring">>
    ELSE IF t = "superuser" THEN <<"super_user">>
    ELSE IF t = "viewreports" THEN <<"view_reports">>
    ELSE <<>>

RECURSIVE mapRolesToBackend(_)
mapRolesToBackend(frontend) ==
    IF frontend = <<>> THEN <<>>
    ELSE roleToBackend(Head(frontend)) \o mapRolesToBackend(Tail(frontend))

RECURSIVE mapRolesToFrontend(_)
mapRolesToFrontend(backend) ==
    IF backend = <<>> THEN <<>>
    ELSE roleToFrontend(Head(backend)) \o mapRolesToFrontend(Tail(backend))

\* the role tokens a configuration may hold: the vocabulary and one token
\* outside it
UnknownRole == "not_a_role"

RoleInputs == ValidRoleSet \cup {UnknownRole}

\* ------------------------------------------------------------------------
\* Identifier strings (strconv.Itoa / strconv.Atoi)
\* ------------------------------------------------------------------------

Digits == <<"0", "1", "2", "3", "4", "5", "6", "7", "8", "9">>

\* strconv.Itoa for n >= 0, most significant digit first
RECURSIVE ItoaNat(_)
ItoaNat(n) ==
    IF n < 10 THEN <<Digits[n + 1]>>
    ELSE Append(ItoaNat(n \div 10), Digits[(n % 10) + 1])

\* strconv.Itoa
Itoa(n) == IF n < 0 THEN <<"-">> \o ItoaNat(0 - n) ELSE ItoaNat(n)

IsDigit(c) == \E i \in DOMAIN Digits : Digits[i] = c

DigitValue(c) == (CHOOSE i \in DOMAIN Digits : Digits[i] = c) - 1

\* the value of a non-empty sequence of digits
RECURSIVE DigitsValue(_)
DigitsValue(s) ==
    IF Len(s) = 0 THEN 0
    ELSE 10 * DigitsValue(SubSeq(s, 1, Len(s) - 1)) + DigitValue(s[Len(s)])

\* strconv.Atoi: an optional sign and at least one digit; a syntax error
\* returns 0 and the error
Atoi(s) ==
    LET signed == Len(s) > 0 /\ s[1] \in {"+", "-"}
        body == IF signed THEN Tail(s) ELSE s
    IN  IF Len(body) = 0 \/ \E i \in DOMAIN body : ~IsDigit(body[i])
        THEN [n |-> 0, err |-> "invalid syntax"]
        ELSE [n |-> IF signed /\ s[1] = "-" THEN 0 - DigitsValue(body)
                    ELSE DigitsValue(body),
              err |-> ""]

\* ------------------------------------------------------------------------
\* Identifier lists (structure.go)
\* ------------------------------------------------------------------------

\* an expandIdentifierList that looks at the error of Atoi and skips the
\* element it cannot parse
RECURSIVE expandIdentifierListChecked(_)
expandIdentifierListChecked(configured) ==
    IF Len(configured) = 0 THEN <<>>
    ELSE (IF Head(configured) # <<>> /\ Atoi(Head(configured)).err = ""
          THEN <<Atoi(Head(configured)).n>> ELSE <<>>)
         \o expandIdentifierListChecked(Tail(configured))

\* an expandIdentifierList that puts each value in front of the ones before it
RECURSIVE expandIdentifierListReversed(_)
expandIdentifierListReversed(configured) ==
    IF Len(configured) = 0 THEN <<>>
    ELSE expandIdentifierListReversed(Tail(configured))
         \o (IF Head(configured) # <<>> THEN <<Atoi(Head(configured)).n>> ELSE <<>>)

\* expandIdentifierList: every element that is a non-empty string appends
\* the value Atoi returns for it, the error of Atoi being discarded
RECURSIVE expandIdentifierList(_)
expandIdentifierList(configured) ==
    IF Len(configured) = 0 THEN <<>>
    ELSE (IF Head(configured) # <<>> THEN <<Atoi(Head(configured)).n>> ELSE <<>>)
         \o expandIdentifierList(Tail(configured))

identifierList(ints) == [i \in DOMAIN ints |-> Itoa(ints[i])]

\* ------------------------------------------------------------------------
\* Terraform values of the Source resource (resource_source.go)
\* ------------------------------------------------------------------------

\* the optional CSV fields of the file-based blocks, by schema type
FileOptionStrings ==
    {"field_separator", "empty_value", "compression", "date_format",
     "timestamp_format", "line_separator"}

FileOptionBools ==
    {"quote_all", "include_header", "ignore_leading_whitespace",
     "ignore_trailing_whitespace"}

FileOptionFields == FileOptionStrings \cup FileOptionBools

\* schema fields of TypeBool and of TypeList; every other field is a TypeString
BoolFields == FileOptionBools

ListFields ==
    {"credentials_provider", "property", "basic", "file", "masking_rule", "filter",
     "mask"}

\* lists whose elements are carried as they are
OpaqueFields == {"principals"}

\* the fields each variant block declares
BlockFields(v) ==
    CASE v = "s3" -> {"bucket", "path", "file_format"} \cup FileOptionFields
      [] v = "s3a" -> {"bucket", "path", "endpoint", "access_key", "secret_key",
                       "file_format"} \cup FileOptionFields
      [] v = "jdbc" -> {"url", "schema", "credentials_provider"}
      [] v = "hive" -> {"database"}
      [] v = "big_query" -> {"path"}
      [] v = "gcs" -> {"bucket", "path", "file_format"} \cup FileOptionFields
      [] v = "local" -> {"path", "file_format"} \cup FileOptionFields
      [] v = "hdfs" -> {"path", "file_format"} \cup FileOptionFields
      [] v = "kafka" -> {"bootstrap_servers", "schema_registry_url", "property"}
      [] v = "snowflake" -> {"url", "warehouse", "database", "schema",
                             "credentials_provider"}

\* the variant blocks of the Source schema, in the order of its ExactlyOneOf
SourceBlocks ==
    <<"s3", "s3a", "jdbc", "hive", "big_query", "gcs", "local", "hdfs", "kafka",
      "snowflake">>

SourceBlockSet == {SourceBlocks[i] : i \in DOMAIN SourceBlocks}

\* d.Get of a nested object: every declared field is present, an unset
\* TypeString reads "" and an unset TypeBool reads false; lists read as lists
RECURSIVE GetMap(_)
GetMap(m) ==
    [k \in DOMAIN m |->
        IF k \in OpaqueFields THEN m[k]
        ELSE IF k \in ListFields THEN [i \in DOMAIN m[k] |-> GetMap(m[k][i])]
        ELSE IF Len(m[k]) = 0 THEN (IF k \in BoolFields THEN <<FALSE>> ELSE <<"">>)
        ELSE m[k]]

\* d.Get of a block list
GetList(list) == [i \in DOMAIN list |-> GetMap(list[i])]

\* d.Set of a block list: each element is written field by field against the
\* block's schema; a field the map does not carry, or carries as nil, is unset
SetMap(fields, m) ==
    [k \in fields |-> IF k \in DOMAIN m THEN m[k] ELSE <<>>]

SetList(fields, list) == [i \in DOMAIN list |-> SetMap(fields, list[i])]

\* ------------------------------------------------------------------------
\* expandSingleMap (structure.go)
\* ------------------------------------------------------------------------

\* value is the []interface{} read for a TypeList field; an element that is
\* not a map (nil) is the empty function.  A nil or non-array value is never
\* read for a TypeList field, so those two branches have no input here.
expandSingleMap(value) ==
    IF Len(value) = 0 THEN [single |-> <<>>, err |-> "Array is empty"]
    ELSE IF DOMAIN value[1] = {}
         THEN [single |-> <<>>, err |-> "Value at index 0 of array is not a map"]
         ELSE [single |-> value[1], err |-> ""]

\* `m != nil` for the map returned by expandSingleMap
NotNil(m) == DOMAIN m # {}

\* ------------------------------------------------------------------------
\* Wire records (models.go)
\* ------------------------------------------------------------------------

\* the zero value of the Go struct Source
ZeroSource ==
    [ID |-> 0, Name |-> "", Description |-> "", Type |-> "", Bucket |-> "",
     Path |-> "", FileFormat |-> <<>>, Endpoint |-> "", AccessKey |-> "",
     SecretKey |-> "", URL |-> "", Schema |-> "", CredentialsProvider |-> <<>>,
     Database |-> "", BootstrapServers |-> "", SchemaRegistryURL |-> "",
     KafkaProperties |-> <<>>, Labels |-> {}, Attributes |-> {},
     Warehouse |-> "", AccessRules |-> <<>>]

\* ------------------------------------------------------------------------
\* Helpers of the repository that are outside src/ (modelled from the spec's
\* description of the compose/flatten pattern)
\* ------------------------------------------------------------------------

\* expandLabels: the labels set of the config as the wire's label list
expandLabels(d) == d.labels

\* expandAttributes: the attribute set of the config as wire Attributes
expandAttributes(d) == {[Key |-> a.key, Value |-> a.value] : a \in d.attribute}

\* flattenAttributes: wire Attributes as the attribute set of the state
flattenAttributes(attributes) == {[key |-> a.Key, value |-> a.Value] : a \in attributes}

\* composeLoginCredentialsProviderConfig: the credentials_provider block holds
\* one nested variant block per provider kind; the first populated one wins
composeLoginCredentialsProviderConfig(m) ==
    IF Len(m.basic) > 0
    THEN [config |-> <<[Type |-> "basic", Username |-> m.basic[1].username[1]]>>,
          err |-> ""]
    ELSE IF Len(m.file) > 0
    THEN [config |-> <<[Type |-> "file", Username |-> m.file[1].username[1]]>>,
          err |-> ""]
    ELSE [config |-> <<>>, err |-> "Invalid login credentials provider config type"]

\* parseLoginCredentialsProviderConfig: the inverse; a nil pointer is an error
parseLoginCredentialsProviderConfig(config) ==
    IF Len(config) = 0
    THEN [map |-> <<>>, err |-> "LoginCredentialsProviderConfig is null"]
    ELSE IF config[1].Type = "basic"
    THEN [map |-> [basic |-> <<[username |-> <<config[1].Username>>]>>, file |-> <<>>],
          err |-> ""]
    ELSE IF config[1].Type = "file"
    THEN [map |-> [basic |-> <<>>, file |-> <<[username |-> <<config[1].Username>>]>>],
          err |-> ""]
    ELSE [map |-> <<>>, err |-> "Invalid login credentials provider config type"]

\* composeSensitiveAttribute: a kafka property {key, secret} as a
\* SensitiveAttribute with a basic value config
composeSensitiveAttribute(prop) ==
    [sa |-> [Key |-> prop.key[1], ValueConfig |-> [Type |-> "basic", Secret |-> prop.secret[1]]],
     err |-> ""]

\* parseSensitiveAttribute: the inverse
parseSensitiveAttribute(sa) ==
    [map |-> [key |-> <<sa.Key>>, secret |-> <<sa.ValueConfig.Secret>>], err |-> ""]

\* expandPrincipalIds / flattenPrincipalIds: the principals of an access rule,
\* carried as the wire's PrincipalId records
expandPrincipalIds(principals) == [ids |-> principals, err |-> ""]

flattenPrincipalIds(principals) == principals

\* ------------------------------------------------------------------------
\* Masking rules and access rules (resource_source.go)
\* ------------------------------------------------------------------------

composeFilterMaskingRule(d) ==
    [Type |-> "filter", Expression |-> d.expression[1], Column |-> ""]

composeMaskMaskingRule(d) ==
    [Type |-> "mask", Expression |-> d.expression[1], Column |-> d.column[1]]

\* the rules one masking_rule element appends: the filter rule if the filter
\* block is populated, then the mask rule if the mask block is populated
expandMaskingRule(val) ==
    (IF NotNil(expandSingleMap(val.filter).single)
     THEN <<composeFilterMaskingRule(expandSingleMap(val.filter).single)>>
     ELSE <<>>)
    \o
    (IF NotNil(expandSingleMap(val.mask).single)
     THEN <<composeMaskMaskingRule(expandSingleMap(val.mask).single)>>
     ELSE <<>>)

RECURSIVE expandMaskingRules(_)
expandMaskingRules(maskingRules) ==
    IF Len(maskingRules) = 0 THEN <<>>
    ELSE expandMaskingRule(Head(maskingRules)) \o expandMaskingRules(Tail(maskingRules))

\* one element of flatternMaskingRules: a map holding the block of the rule's
\* adt_type (and no key at all for any other adt_type)
flatternMaskingRule(maskingRule) ==
    LET filter == IF maskingRule.Type = "filter"
                  THEN <<[expression |-> <<maskingRule.Expression>>]>>
                  ELSE <<>>
        mask == IF maskingRule.Type = "mask"
                THEN <<[column |-> <<maskingRule.Column>>,
                        expression |-> <<maskingRule.Expression>>]>>
                ELSE <<>>
    IN  [filter |-> filter, mask |-> mask]

\* a flatternMaskingRules that emits elements for the filter rules only
flatternMaskingRulesFilterOnly(maskingRules) ==
    LET IsFilter(rule) == rule.Type = "filter"
        filters == SelectSeq(maskingRules, IsFilter)
    IN  [i \in DOMAIN filters |-> flatternMaskingRule(filters[i])]

flatternMaskingRules(maskingRules) ==
    [i \in DOMAIN maskingRules |-> flatternMaskingRule(maskingRules[i])]

\* expandAccessRules: the first error of expandPrincipalIds aborts the whole
\* list; expandMaskingRules never fails
RECURSIVE expandAccessRules(_)
expandAccessRules(accessRules) ==
    IF Len(accessRules) = 0 THEN [rules |-> <<>>, err |-> ""]
    ELSE LET val == Head(accessRules)
             principals == expandPrincipalIds(val.principals)
             rest == expandAccessRules(Tail(accessRules))
         IN  IF principals.err # "" THEN [rules |-> <<>>, err |-> principals.err]
             ELSE IF rest.err # "" THEN [rules |-> <<>>, err |-> rest.err]
             ELSE [rules |-> <<[Resource |-> val.resource[1],
                                Principals |-> principals.ids,
                                MaskingRules |-> expandMaskingRules(val.masking_rule)]>>
                             \o rest.rules,
                   err |-> ""]

flattenAccessRules(accessRules) ==
    [i \in DOMAIN accessRules |->
        [resource |-> <<accessRules[i].Resource>>,
         principals |-> flattenPrincipalIds(accessRules[i].Principals),
         masking_rule |-> flatternMaskingRules(accessRules[i].MaskingRules)]]

\* ------------------------------------------------------------------------
\* File formats (resource_source.go)
\* ------------------------------------------------------------------------

\* composeFileFormat: for "csv", each option whose type assertion succeeds is
\* copied as a pointer; for any other format the options stay nil
composeFileFormat(d) ==
    LET csv == d.file_format[1] = "csv"
        opt(v) == IF csv /\ Len(v) = 1 THEN v ELSE <<>>
    IN  [Type |-> d.file_format[1],
         Sep |-> opt(d.field_separator),
         QuoteAll |-> opt(d.quote_all),
         IncludeHeader |-> opt(d.include_header),
         EmptyValue |-> opt(d.empty_value),
         Compression |-> opt(d.compression),
         DateFormat |-> opt(d.date_format),
         TimestampFormat |-> opt(d.timestamp_format),
         IgnoreLeadingWhiteSpace |-> opt(d.ignore_leading_whitespace),
         IgnoreTrailingWhiteSpace |-> opt(d.ignore_trailing_whitespace),
         LineSep |-> opt(d.line_separator)]

\* parseFileFormat: file_format always; the ten CSV keys only for "csv"
parseFileFormat(fileFormat) ==
    IF fileFormat.Type = "csv"
    THEN [file_format |-> <<fileFormat.Type>>,
          compression |-> fileFormat.Compression,
          date_format |-> fileFormat.DateFormat,
          empty_value |-> fileFormat.EmptyValue,
          field_separator |-> fileFormat.Sep,
          ignore_leading_whitespace |-> fileFormat.IgnoreLeadingWhiteSpace,
          ignore_trailing_whitespace |-> fileFormat.IgnoreTrailingWhiteSpace,
          include_header |-> fileFormat.IncludeHeader,
          quote_all |-> fileFormat.QuoteAll,
          timestamp_format |-> fileFormat.TimestampFormat,
          line_separator |-> fileFormat.LineSep]
    ELSE [file_format |-> <<fileFormat.Type>>]

\* ------------------------------------------------------------------------
\* composeSource (resource_source.go)
\* ------------------------------------------------------------------------

\* the fields every branch of composeSource fills from the top-level config
composeCommon(d, accessRules) ==
    [ZeroSource EXCEPT !.Name = d.name,
                       !.Description = d.description,
                       !.Labels = expandLabels(d),
                       !.Attributes = expandAttributes(d),
                       !.AccessRules = accessRules]

\* the kafka branch's loop over kafka["property"]
composeKafkaProperties(array) ==
    [i \in DOMAIN array |-> composeSensitiveAttribute(array[i]).sa]

\* the body of the branch of composeSource taken for block v, whose single
\* map is m
composeBranch(v, m, common) ==
    CASE v = "s3" ->
            [source |-> <<[common EXCEPT !.Type = "s3",
                                         !.Bucket = m.bucket[1],
                                         !.Path = m.path[1],
                                         !.FileFormat = <<composeFileFormat(m)>>]>>,
             err |-> ""]
      [] v = "s3a" ->
            [source |-> <<[common EXCEPT !.Type = "s3a",
                                         !.Bucket = m.bucket[1],
                                         !.Path = m.path[1],
                                         !.Endpoint = m.endpoint[1],
                                         !.AccessKey = m.access_key[1],
                                         !.SecretKey = m.secret_key[1],
                                         !.FileFormat = <<composeFileFormat(m)>>]>>,
             err |-> ""]
      [] v = "jdbc" ->
            LET credentialsProviderMap == expandSingleMap(m.credentials_provider)
                credentialsProvider ==
                    composeLoginCredentialsProviderConfig(credentialsProviderMap.single)
            IN  IF credentialsProviderMap.err # ""
                THEN [source |-> <<>>, err |-> credentialsProviderMap.err]
                ELSE IF credentialsProvider.err # ""
                THEN [source |-> <<>>, err |-> credentialsProvider.err]
                ELSE [source |-> <<[common EXCEPT
                                        !.Type = "jdbc",
                                        !.URL = m.url[1],
                                        !.Schema = m.schema[1],
                                        !.CredentialsProvider = credentialsProvider.config]>>,
                      err |-> ""]
      [] v = "hive" ->
            [source |-> <<[common EXCEPT !.Type = "hive",
                                         !.Database = m.database[1]]>>,
             err |-> ""]
      [] v = "big_query" ->
            [source |-> <<[common EXCEPT !.Type = "bigquery",
                                         !.Path = m.path[1]]>>,
             err |-> ""]
      [] v = "gcs" ->
            [source |-> <<[common EXCEPT !.Type = "gcs",
                                         !.Bucket = m.bucket[1],
                                         !.Path = m.path[1],
                                         !.FileFormat = <<composeFileFormat(m)>>]>>,
             err |-> ""]
      [] v = "local" ->
            [source |-> <<[common EXCEPT !.Type = "local",
                                         !.Path = m.path[1],
                                         !.FileFormat = <<composeFileFormat(m)>>]>>,
             err |-> ""]
      [] v = "hdfs" ->
            [source |-> <<[common EXCEPT !.Type = "hdfs",
                                         !.Path = m.path[1],
                                         !.FileFormat = <<composeFileFormat(m)>>]>>,
             err |-> ""]
      [] v = "kafka" ->
            [source |-> <<[common EXCEPT
                                !.Type = "kafka",
                                !.BootstrapServers = m.bootstrap_servers[1],
                                !.SchemaRegistryURL = m.schema_registry_url[1],
                                !.KafkaProperties = composeKafkaProperties(m.property)]>>,
             err |-> ""]
      [] v = "snowflake" ->
            LET credentialsProviderMap == expandSingleMap(m.credentials_provider)
                credentialsProvider ==
                    composeLoginCredentialsProviderConfig(credentialsProviderMap.single)
            IN  IF credentialsProviderMap.err # ""
                THEN [source |-> <<>>, err |-> credentialsProviderMap.err]
                ELSE IF credentialsProvider.err # ""
                THEN [source |-> <<>>, err |-> credentialsProvider.err]
                ELSE [source |-> <<[common EXCEPT
                                        !.Type = "snowflake",
                                        !.URL = m.url[1],
                                        !.Schema = m.schema[1],
                                        !.Warehouse = m.warehouse[1],
                                        !.Database = m.database[1],
                                        !.CredentialsProvider = credentialsProvider.config]>>,
                      err |-> ""]

\* `x, _ := expandSingleMap(d.Get(v)); x != nil`
single(d, v) == expandSingleMap(GetList(d[v])).single

\* a composeSource that scans the blocks from the last to the first
composeSourceLastWins(d) ==
    LET accessRules == expandAccessRules(GetList(d.access_rule))
        common == composeCommon(d, accessRules.rules)
        try(v) == composeBranch(v, single(d, v), common)
    IN  IF accessRules.err # "" THEN [source |-> <<>>, err |-> accessRules.err]
        ELSE IF NotNil(single(d, "snowflake")) THEN try("snowflake")
        ELSE IF NotNil(single(d, "kafka")) THEN try("kafka")
        ELSE IF NotNil(single(d, "hdfs")) THEN try("hdfs")
        ELSE IF NotNil(single(d, "local")) THEN try("local")
        ELSE IF NotNil(single(d, "gcs")) THEN try("gcs")
        ELSE IF NotNil(single(d, "big_query")) THEN try("big_query")
        ELSE IF NotNil(single(d, "hive")) THEN try("hive")
        ELSE IF NotNil(single(d, "jdbc")) THEN try("jdbc")
        ELSE IF NotNil(single(d, "s3a")) THEN try("s3a")
        ELSE IF NotNil(single(d, "s3")) THEN try("s3")
        ELSE [source |-> <<>>, err |-> "Invalid source type"]

\* a composeSource whose last branch returns the common fields as a record
\* without adt_type instead of failing
composeSourceDefaultType(d) ==
    LET accessRules == expandAccessRules(GetList(d.access_rule))
        common == composeCommon(d, accessRules.rules)
        try(v) == composeBranch(v, single(d, v), common)
    IN  IF accessRules.err # "" THEN [source |-> <<>>, err |-> accessRules.err]
        ELSE IF NotNil(single(d, "s3")) THEN try("s3")
        ELSE IF NotNil(single(d, "s3a")) THEN try("s3a")
        ELSE IF NotNil(single(d, "jdbc")) THEN try("jdbc")
        ELSE IF NotNil(single(d, "hive")) THEN try("hive")
        ELSE IF NotNil(single(d, "big_query")) THEN try("big_query")
        ELSE IF NotNil(single(d, "gcs")) THEN try("gcs")
        ELSE IF NotNil(single(d, "local")) THEN try("local")
        ELSE IF NotNil(single(d, "hdfs")) THEN try("hdfs")
        ELSE IF NotNil(single(d, "kafka")) THEN try("kafka")
        ELSE IF NotNil(single(d, "snowflake")) THEN try("snowflake")
        ELSE [source |-> <<common>>, err |-> ""]

\* composeSource: (*Source, error) as [source: nil or <<Source>>, err]
composeSource(d) ==
    LET accessRules == expandAccessRules(GetList(d.access_rule))
        common == composeCommon(d, accessRules.rules)
        try(v) == composeBranch(v, single(d, v), common)
    IN  IF accessRules.err # "" THEN [source |-> <<>>, err |-> accessRules.err]
        ELSE IF NotNil(single(d, "s3")) THEN try("s3")
        ELSE IF NotNil(single(d, "s3a")) THEN try("s3a")
        ELSE IF NotNil(single(d, "jdbc")) THEN try("jdbc")
        ELSE IF NotNil(single(d, "hive")) THEN try("hive")
        ELSE IF NotNil(single(d, "big_query")) THEN try("big_query")
        ELSE IF NotNil(single(d, "gcs")) THEN try("gcs")
        ELSE IF NotNil(single(d, "local")) THEN try("local")
        ELSE IF NotNil(single(d, "hdfs")) THEN try("hdfs")
        ELSE IF NotNil(single(d, "kafka")) THEN try("kafka")
        ELSE IF NotNil(single(d, "snowflake")) THEN try("snowflake")
        ELSE [source |-> <<>>, err |-> "Invalid source type"]

\* ------------------------------------------------------------------------
\* The parse* flatteners (resource_source.go)
\* ------------------------------------------------------------------------

\* Used for both S3 and GCS sources
parseS3Source(source) ==
    [list |-> <<[bucket |-> <<source.Bucket>>, path |-> <<source.Path>>]
                @@ parseFileFormat(source.FileFormat[1])>>,
     err |-> ""]

parseS3ASource(source) ==
    [list |-> <<[bucket |-> <<source.Bucket>>, path |-> <<source.Path>>,
                 endpoint |-> <<source.Endpoint>>,
                 access_key |-> <<source.AccessKey>>,
                 secret_key |-> <<source.SecretKey>>]
                @@ parseFileFormat(source.FileFormat[1])>>,
     err |-> ""]

\* Used for local and HDFS sources
parseLocalSource(source) ==
    [list |-> <<[path |-> <<source.Path>>] @@ parseFileFormat(source.FileFormat[1])>>,
     err |-> ""]

parseJDBCSource(source) ==
    LET credentialsProvider ==
            parseLoginCredentialsProviderConfig(source.CredentialsProvider)
    IN  IF credentialsProvider.err # "" THEN [list |-> <<>>, err |-> credentialsProvider.err]
        ELSE [list |-> <<[url |-> <<source.URL>>, schema |-> <<source.Schema>>,
                          credentials_provider |-> <<credentialsProvider.map>>]>>,
              err |-> ""]

parseBigQuerySource(source) ==
    [list |-> <<[path |-> <<source.Path>>]>>, err |-> ""]

parseHiveSource(source) ==
    [list |-> <<[database |-> <<source.Database>>]>>, err |-> ""]

parseKafkaSource(source) ==
    [list |-> <<[bootstrap_servers |-> <<source.BootstrapServers>>,
                 schema_registry_url |-> <<source.SchemaRegistryURL>>,
                 property |-> [i \in DOMAIN source.KafkaProperties |->
                                  parseSensitiveAttribute(source.KafkaProperties[i]).map]]>>,
     err |-> ""]

parseSnowflakeSource(source) ==
    LET credentialsProvider ==
            parseLoginCredentialsProviderConfig(source.CredentialsProvider)
    IN  IF credentialsProvider.err # "" THEN [list |-> <<>>, err |-> credentialsProvider.err]
        ELSE [list |-> <<[url |-> <<source.URL>>, warehouse |-> <<source.Warehouse>>,
                          database |-> <<source.Database>>, schema |-> <<source.Schema>>,
                          credentials_provider |-> <<credentialsProvider.map>>]>>,
              err |-> ""]

\* a chain whose gcs test sets the block of the flattener it shares with s3
flattenVariantGcsAsS3(source) ==
    IF source.Type = "s3" THEN [key |-> "s3"] @@ parseS3Source(source)
    ELSE IF source.Type = "s3a" THEN [key |-> "s3a"] @@ parseS3ASource(source)
    ELSE IF source.Type = "gcs" THEN [key |-> "s3"] @@ parseS3Source(source)
    ELSE IF source.Type = "local" THEN [key |-> "local"] @@ parseLocalSource(source)
    ELSE IF source.Type = "hdfs" THEN [key |-> "hdfs"] @@ parseLocalSource(source)
    ELSE IF source.Type = "jdbc" THEN [key |-> "jdbc"] @@ parseJDBCSource(source)
    ELSE IF source.Type = "hive" THEN [key |-> "hive"] @@ parseHiveSource(source)
    ELSE IF source.Type = "bigquery" THEN [key |-> "big_query"] @@ parseBigQuerySource(source)
    ELSE IF source.Type = "kafka" THEN [key |-> "kafka"] @@ parseKafkaSource(source)
    ELSE IF source.Type = "snowflake" THEN [key |-> "snowflake"] @@ parseSnowflakeSource(source)
    ELSE [key |-> "", list |-> <<>>, err |-> ""]

\* the chain of `if source.Type == ...` of resourceSourceRead: the block key
\* that is set and the value parsed for it; key "" when no test matches
flattenVariant(source) ==
    IF source.Type = "s3" THEN [key |-> "s3"] @@ parseS3Source(source)
    ELSE IF source.Type = "s3a" THEN [key |-> "s3a"] @@ parseS3ASource(source)
    ELSE IF source.Type = "gcs" THEN [key |-> "gcs"] @@ parseS3Source(source)
    ELSE IF source.Type = "local" THEN [key |-> "local"] @@ parseLocalSource(source)
    ELSE IF source.Type = "hdfs" THEN [key |-> "hdfs"] @@ parseLocalSource(source)
    ELSE IF source.Type = "jdbc" THEN [key |-> "jdbc"] @@ parseJDBCSource(source)
    ELSE IF source.Type = "hive" THEN [key |-> "hive"] @@ parseHiveSource(source)
    ELSE IF source.Type = "bigquery" THEN [key |-> "big_query"] @@ parseBigQuerySource(source)
    ELSE IF source.Type = "kafka" THEN [key |-> "kafka"] @@ parseKafkaSource(source)
    ELSE IF source.Type = "snowflake" THEN [key |-> "snowflake"] @@ parseSnowflakeSource(source)
    ELSE [key |-> "", list |-> <<>>, err |-> ""]

\* a resourceSourceRead without the d.Set of labels
flattenSourceNoLabels(d, source) ==
    LET named == [d EXCEPT !.name = source.Name, !.description = source.Description]
        variant == flattenVariant(source)
        blocks == IF variant.key = "" THEN named
                  ELSE [named EXCEPT ![variant.key] =
                                        SetList(BlockFields(variant.key), variant.list)]
    IN  IF variant.err # "" THEN [d |-> named, err |-> variant.err]
        ELSE [d |-> [blocks EXCEPT !.attribute = flattenAttributes(source.Attributes),
                                   !.access_rule = flattenAccessRules(source.AccessRules)],
              err |-> ""]

\* resourceSourceRead from the first d.Set on: the state written for a record
\* the backend returned, and the error returned.  A parse error returns
\* after name and description were set.
flattenSource(d, source) ==
    LET named == [d EXCEPT !.name = source.Name, !.description = source.Description]
        variant == flattenVariant(source)
        blocks == IF variant.key = "" THEN named
                  ELSE [named EXCEPT ![variant.key] =
                                        SetList(BlockFields(variant.key), variant.list)]
    IN  IF variant.err # "" THEN [d |-> named, err |-> variant.err]
        ELSE [d |-> [blocks EXCEPT !.labels = source.Labels,
                                   !.attribute = flattenAttributes(source.Attributes),
                                   !.access_rule = flattenAccessRules(source.AccessRules)],
              err |-> ""]

\* ------------------------------------------------------------------------
\* Entities (resource_entity.go)
\* ------------------------------------------------------------------------

\* d.Get of an optional TypeString: "" when unset
GetString(o) == IF Len(o) = 0 THEN "" ELSE o[1]

\* the second result of d.GetOk of a TypeString: set to a non-zero value
GetOk(o) == Len(o) = 1 /\ o[1] # ""

\* the zero value of the Go struct Entity
ZeroEntity ==
    [ID |-> 0, Name |-> "", Description |-> "", Type |-> "", DefaultColumn |-> <<>>,
     RequiredType |-> <<>>, Entities |-> <<>>, Labels |-> {}, Attributes |-> {}]

\* a requiredType of the wire is a JSON string or a structured value
StringType(v) == [isString |-> TRUE, value |-> v]

\* a buildEntity that expands the entities list in the base branch too
buildEntityBothVariants(d) ==
    LET entity == [ZeroEntity EXCEPT !.Name = d.name,
                                     !.Description = d.description,
                                     !.Labels = expandLabels(d),
                                     !.Attributes = expandAttributes(d),
                                     !.Entities = <<expandIdentifierList(d.entities)>>]
        default_column == GetString(d.default_column)
    IN  IF default_column # ""
        THEN [entity EXCEPT !.Type = "base",
                            !.DefaultColumn = <<default_column>>,
                            !.RequiredType =
                                IF GetOk(d.required_type)
                                THEN <<StringType(GetString(d.required_type))>>
                                ELSE <<>>]
        ELSE [entity EXCEPT !.Type = "composite"]

buildEntity(d) ==
    LET entity == [ZeroEntity EXCEPT !.Name = d.name,
                                     !.Description = d.description,
                                     !.Labels = expandLabels(d),
                                     !.Attributes = expandAttributes(d)]
        default_column == GetString(d.default_column)
    IN  IF default_column # ""
        THEN [entity EXCEPT !.Type = "base",
                            !.DefaultColumn = <<default_column>>,
                            !.RequiredType =
                                IF GetOk(d.required_type)
                                THEN <<StringType(GetString(d.required_type))>>
                                ELSE <<>>]
        ELSE [entity EXCEPT !.Type = "composite",
                            !.Entities = <<expandIdentifierList(d.entities)>>]

\* a resourceEntityRead whose composite branch sets entities only
flattenEntityKeepsBase(d, entity) ==
    LET named == [d EXCEPT !.name = entity.Name, !.description = entity.Description]
        composite == IF Len(entity.Entities) > 0
                     THEN [named EXCEPT !.entities = identifierList(entity.Entities[1])]
                     ELSE IF Len(entity.DefaultColumn) > 0
                     THEN [named EXCEPT !.default_column = entity.DefaultColumn,
                                        !.entities = <<>>]
                     ELSE named
    IN  [d |-> [composite EXCEPT !.labels = entity.Labels,
                                 !.attribute = flattenAttributes(entity.Attributes)],
         err |-> ""]

\* resourceEntityRead from the first d.Set on
flattenEntity(d, entity) ==
    LET named == [d EXCEPT !.name = entity.Name, !.description = entity.Description]
        base == IF Len(entity.DefaultColumn) > 0
                THEN [named EXCEPT
                        !.default_column = entity.DefaultColumn,
                        !.required_type =
                            IF Len(entity.RequiredType) > 0
                            THEN (IF entity.RequiredType[1].isString
                                  THEN <<entity.RequiredType[1].value>>
                                  ELSE <<"Complex Type">>)
                            ELSE <<>>,
                        !.entities = <<>>]
                ELSE named
        composite == IF Len(entity.Entities) > 0
                     THEN [base EXCEPT !.default_column = <<>>,
                                       !.required_type = <<>>,
                                       !.entities = identifierList(entity.Entities[1])]
                     ELSE base
    IN  [d |-> [composite EXCEPT !.labels = entity.Labels,
                                 !.attribute = flattenAttributes(entity.Attributes)],
         err |-> ""]

\* ------------------------------------------------------------------------
\* The API client (client.go is outside src/; modelled from the spec: a
\* transport or non-2xx failure is an error, not-found is a nil object on
\* get and a success on delete, ids are assigned by the backend)
\* ------------------------------------------------------------------------

\* the backend ids whose object exists and whose decimal form is id
Found(st, id) == {n \in DOMAIN st : Len(st[n]) > 0 /\ Itoa(n) = id}

BackendError == "backend error"

\* GetSource / GetEntity
ClientGet(st, id, resp) ==
    IF resp = "fail" THEN [obj |-> <<>>, err |-> BackendError, status |-> "error"]
    ELSE IF Found(st, id) = {} THEN [obj |-> <<>>, err |-> "", status |-> "not_found"]
    ELSE [obj |-> st[CHOOSE n \in Found(st, id) : TRUE], err |-> "", status |-> "ok"]

\* CreateSource / CreateEntity: the stored object carries the assigned id
ClientCreate(st, nid, object, resp) ==
    IF resp = "fail"
    THEN [obj |-> <<>>, err |-> BackendError, status |-> "error", store |-> st,
          nextId |-> nid]
    ELSE [obj |-> <<[object EXCEPT !.ID = nid]>>, err |-> "", status |-> "ok",
          store |-> [st EXCEPT ![nid] = <<[object EXCEPT !.ID = nid]>>],
          nextId |-> nid + 1]

\* UpdateSource / UpdateEntity
ClientUpdate(st, id, object, resp) ==
    IF resp = "fail" THEN [err |-> BackendError, status |-> "error", store |-> st]
    ELSE IF Found(st, id) = {}
    THEN [err |-> "status: 404", status |-> "not_found", store |-> st]
    ELSE LET n == CHOOSE n \in Found(st, id) : TRUE
         IN  [err |-> "", status |-> "ok",
              store |-> [st EXCEPT ![n] = <<[object EXCEPT !.ID = n]>>]]

\* DeleteSource / DeleteEntity
ClientDelete(st, id, resp) ==
    IF resp = "fail" THEN [err |-> BackendError, status |-> "error", store |-> st]
    ELSE IF Found(st, id) = {} THEN [err |-> "", status |-> "not_found", store |-> st]
    ELSE [err |-> "", status |-> "ok",
          store |-> [st EXCEPT ![CHOOSE n \in Found(st, id) : TRUE] = <<>>]]

\* FindCluster: the cluster of that name, or nil
ClientFind(st, name, resp) ==
    LET named == {n \in DOMAIN st : Len(st[n]) > 0 /\ st[n][1].Name = name}
    IN  IF resp = "fail" THEN [obj |-> <<>>, err |-> BackendError, status |-> "error"]
        ELSE IF named = {} THEN [obj |-> <<>>, err |-> "", status |-> "not_found"]
        ELSE [obj |-> st[CHOOSE n \in named : TRUE], err |-> "", status |-> "ok"]

\* a backend call as a handler issued it: the client function, the id and the
\* body it was given, and the object and the status the backend answered
Call(fn, id, body, reply, status) ==
    [fn |-> fn, id |-> id, body |-> body, reply |-> reply, status |-> status]

\* ------------------------------------------------------------------------
\* The handlers.  Each takes the ResourceData d, the backend's collection st,
\* the backend's next id and the fate of the backend call, and yields the
\* ResourceData it leaves, the error it returns, the backend calls it issued
\* and the backend's collection and next id afterwards.
\* ------------------------------------------------------------------------

Outcome(d, err, calls, st, nid) ==
    [d |-> d, err |-> err, calls |-> calls, store |-> st, nextId |-> nid]

\* a Read that takes a failed call for a missing object and clears the id
resourceSourceReadClearsOnError(d, st, nid, resp) ==
    LET got == ClientGet(st, d.id, resp)
        calls == <<Call("GetSource", d.id, <<>>, got.obj, got.status)>>
    IN  IF got.err # "" THEN Outcome([d EXCEPT !.id = <<>>], got.err, calls, st, nid)
        ELSE IF Len(got.obj) = 0 THEN Outcome([d EXCEPT !.id = <<>>], "", calls, st, nid)
        ELSE LET flat == flattenSource(d, got.obj[1])
             IN  Outcome(flat.d, flat.err, calls, st, nid)

\* a Read that asks the backend a second time when the first call failed
resourceSourceReadRetries(d, st, nid, resp) ==
    LET first == ClientGet(st, d.id, resp)
        got == IF first.err # "" THEN ClientGet(st, d.id, "ok") ELSE first
        calls == IF first.err # ""
                 THEN <<Call("GetSource", d.id, <<>>, first.obj, first.status),
                        Call("GetSource", d.id, <<>>, got.obj, got.status)>>
                 ELSE <<Call("GetSource", d.id, <<>>, got.obj, got.status)>>
    IN  IF got.err # "" THEN Outcome(d, got.err, calls, st, nid)
        ELSE IF Len(got.obj) = 0 THEN Outcome([d EXCEPT !.id = <<>>], "", calls, st, nid)
        ELSE LET flat == flattenSource(d, got.obj[1])
             IN  Outcome(flat.d, flat.err, calls, st, nid)

resourceSourceRead(d, st, nid, resp) ==
    LET got == ClientGet(st, d.id, resp)
        calls == <<Call("GetSource", d.id, <<>>, got.obj, got.status)>>
    IN  IF got.err # "" THEN Outcome(d, got.err, calls, st, nid)
        ELSE IF Len(got.obj) = 0 THEN Outcome([d EXCEPT !.id = <<>>], "", calls, st, nid)
        ELSE LET flat == flattenSource(d, got.obj[1])
             IN  Outcome(flat.d, flat.err, calls, st, nid)

\* a Create that takes the id from the record it composed, not from the
\* object the backend returned
resourceSourceCreateOwnId(d, st, nid, resp) ==
    LET composed == composeSource(d)
    IN  IF Len(composed.source) = 0 \/ composed.err # ""
        THEN Outcome(d, composed.err, <<>>, st, nid)
        ELSE LET e == ClientCreate(st, nid, composed.source[1], resp)
                 calls == <<Call("CreateSource", <<>>, composed.source, e.obj, e.status)>>
             IN  IF e.err # "" THEN Outcome(d, e.err, calls, e.store, e.nextId)
                 ELSE Outcome([d EXCEPT !.id = Itoa(composed.source[1].ID)], "", calls,
                              e.store, e.nextId)

resourceSourceCreate(d, st, nid, resp) ==
    LET composed == composeSource(d)
    IN  IF Len(composed.source) = 0 \/ composed.err # ""
        THEN Outcome(d, composed.err, <<>>, st, nid)
        ELSE LET e == ClientCreate(st, nid, composed.source[1], resp)
                 calls == <<Call("CreateSource", <<>>, composed.source, e.obj, e.status)>>
             IN  IF e.err # "" THEN Outcome(d, e.err, calls, e.store, e.nextId)
                 ELSE Outcome([d EXCEPT !.id = Itoa(e.obj[1].ID)], "", calls,
                              e.store, e.nextId)

\* an Update that does not look at what composeSource returned before it
\* calls the backend
resourceSourceUpdateUnchecked(d, st, nid, resp) ==
    LET composed == composeSource(d)
        source == IF Len(composed.source) = 0 THEN ZeroSource ELSE composed.source[1]
        u == ClientUpdate(st, d.id, source, resp)
    IN  Outcome(d, IF composed.err # "" THEN composed.err ELSE u.err,
                <<Call("UpdateSource", d.id, <<source>>, <<>>, u.status)>>, u.store, nid)

resourceSourceUpdate(d, st, nid, resp) ==
    LET composed == composeSource(d)
    IN  IF Len(composed.source) = 0 \/ composed.err # ""
        THEN Outcome(d, composed.err, <<>>, st, nid)
        ELSE LET u == ClientUpdate(st, d.id, composed.source[1], resp)
             IN  Outcome(d, u.err,
                         <<Call("UpdateSource", d.id, composed.source, <<>>, u.status)>>,
                         u.store, nid)

\* a Delete that reports a missing object as an error
resourceSourceDeleteStrict(d, st, nid, resp) ==
    LET del == ClientDelete(st, d.id, resp)
    IN  Outcome(d, IF del.status = "not_found" THEN "not found" ELSE del.err,
                <<Call("DeleteSource", d.id, <<>>, <<>>, del.status)>>, del.store, nid)

\* a Delete that clears the id itself once the backend call succeeded
resourceSourceDeleteClearsId(d, st, nid, resp) ==
    LET del == ClientDelete(st, d.id, resp)
    IN  Outcome(IF del.err = "" THEN [d EXCEPT !.id = <<>>] ELSE d, del.err,
                <<Call("DeleteSource", d.id, <<>>, <<>>, del.status)>>, del.store, nid)

resourceSourceDelete(d, st, nid, resp) ==
    LET del == ClientDelete(st, d.id, resp)
    IN  Outcome(d, del.err, <<Call("DeleteSource", d.id, <<>>, <<>>, del.status)>>,
                del.store, nid)

\* a Read that reports a missing object as an error and keeps the id
resourceEntityReadMissingIsError(d, st, nid, resp) ==
    LET got == ClientGet(st, d.id, resp)
        calls == <<Call("GetEntity", d.id, <<>>, got.obj, got.status)>>
    IN  IF got.err # "" THEN Outcome(d, got.err, calls, st, nid)
        ELSE IF Len(got.obj) = 0 THEN Outcome(d, "not found", calls, st, nid)
        ELSE LET flat == flattenEntity(d, got.obj[1])
             IN  Outcome(flat.d, flat.err, calls, st, nid)

resourceEntityRead(d, st, nid, resp) ==
    LET got == ClientGet(st, d.id, resp)
        calls == <<Call("GetEntity", d.id, <<>>, got.obj, got.status)>>
    IN  IF got.err # "" THEN Outcome(d, got.err, calls, st, nid)
        ELSE IF Len(got.obj) = 0 THEN Outcome([d EXCEPT !.id = <<>>], "", calls, st, nid)
        ELSE LET flat == flattenEntity(d, got.obj[1])
             IN  Outcome(flat.d, flat.err, calls, st, nid)

resourceEntityCreate(d, st, nid, resp) ==
    LET entity == buildEntity(d)
        e == ClientCreate(st, nid, entity, resp)
        calls == <<Call("CreateEntity", <<>>, <<entity>>, e.obj, e.status)>>
    IN  IF e.err # "" THEN Outcome(d, e.err, calls, e.store, e.nextId)
        ELSE Outcome([d EXCEPT !.id = Itoa(e.obj[1].ID)], "", calls, e.store, e.nextId)

\* an Update keyed by the id field of the record it built, not by d.Id()
resourceEntityUpdateRekeyed(d, st, nid, resp) ==
    LET entity == buildEntity(d)
        u == ClientUpdate(st, Itoa(entity.ID), entity, resp)
    IN  Outcome(d, u.err,
                <<Call("UpdateEntity", Itoa(entity.ID), <<entity>>, <<>>, u.status)>>,
                u.store, nid)

resourceEntityUpdate(d, st, nid, resp) ==
    LET entity == buildEntity(d)
        u == ClientUpdate(st, d.id, entity, resp)
    IN  Outcome(d, u.err, <<Call("UpdateEntity", d.id, <<entity>>, <<>>, u.status)>>,
                u.store, nid)

resourceEntityDelete(d, st, nid, resp) ==
    LET del == ClientDelete(st, d.id, resp)
    IN  Outcome(d, del.err, <<Call("DeleteEntity", d.id, <<>>, <<>>, del.status)>>,
                del.store, nid)

dataSourceClusterRead(d, st, nid, resp) ==
    LET found == ClientFind(st, d.name, resp)
        calls == <<Call("FindCluster", <<>>, <<>>, found.obj, found.status)>>
    IN  IF found.err # "" THEN Outcome(d, found.err, calls, st, nid)
        ELSE IF Len(found.obj) = 0 THEN Outcome([d EXCEPT !.id = <<>>], "", calls, st, nid)
        ELSE Outcome([d EXCEPT !.id = Itoa(found.obj[1].ID),
                               !.name = found.obj[1].Name,
                               !.description = found.obj[1].Description],
                     "", calls, st, nid)

\* ------------------------------------------------------------------------
\* Configurations and backend records the runs draw from
\* ------------------------------------------------------------------------

\* a Source ResourceData with nothing set
BlankSource ==
    [id |-> <<>>, name |-> "", description |-> "", s3 |-> <<>>, s3a |-> <<>>,
     jdbc |-> <<>>, hive |-> <<>>, big_query |-> <<>>, gcs |-> <<>>, local |-> <<>>,
     hdfs |-> <<>>, kafka |-> <<>>, snowflake |-> <<>>, labels |-> {},
     attribute |-> {}, access_rule |-> <<>>]

BlankEntity ==
    [id |-> <<>>, name |-> "", description |-> "", default_column |-> <<>>,
     required_type |-> <<>>, entities |-> <<>>, labels |-> {}, attribute |-> {}]

BlankCluster == [id |-> <<>>, name |-> "", description |-> ""]

UnsetFileOptions == [k \in FileOptionFields |-> <<>>]

\* a file-based block: its own fields, the format, and the CSV separator
FileBlock(fields, format, sep) ==
    fields @@ [file_format |-> <<format>>]
           @@ [UnsetFileOptions EXCEPT !["field_separator"] = sep]

BasicCredentials(user) == [basic |-> <<[username |-> <<user>>]>>, file |-> <<>>]

\* sample blocks of each variant, every value naming its block
SampleBlocks(v) ==
    CASE v = "s3" ->
            {FileBlock([bucket |-> <<"s3-bucket">>, path |-> <<"s3-path">>], "csv", <<",">>),
             FileBlock([bucket |-> <<"s3-bucket">>, path |-> <<"s3-path">>], "parquet", <<>>)}
      [] v = "s3a" ->
            {FileBlock([bucket |-> <<"s3a-bucket">>, path |-> <<"s3a-path">>,
                        endpoint |-> <<"s3a-endpoint">>, access_key |-> <<>>,
                        secret_key |-> <<>>], "orc", <<";">>)}
      [] v = "jdbc" ->
            {[url |-> <<"jdbc-url">>, schema |-> <<"jdbc-schema">>,
              credentials_provider |-> <<BasicCredentials("jdbc-user")>>],
             [url |-> <<"jdbc-url">>, schema |-> <<"jdbc-schema">>,
              credentials_provider |-> <<>>]}
      [] v = "hive" -> {[database |-> <<"hive-database">>]}
      [] v = "big_query" -> {[path |-> <<"bq-path">>]}
      [] v = "gcs" ->
            {FileBlock([bucket |-> <<"gcs-bucket">>, path |-> <<"gcs-path">>], "csv", <<>>)}
      [] v = "local" -> {FileBlock([path |-> <<"local-path">>], "parquet", <<>>)}
      [] v = "hdfs" -> {FileBlock([path |-> <<"hdfs-path">>], "csv", <<"|">>)}
      [] v = "kafka" ->
            {[bootstrap_servers |-> <<"kafka-servers">>,
              schema_registry_url |-> <<"kafka-registry">>,
              property |-> <<[key |-> <<"kafka-key">>, secret |-> <<"kafka-secret">>]>>]}
      [] v = "snowflake" ->
            {[url |-> <<"snow-url">>, warehouse |-> <<"snow-warehouse">>,
              database |-> <<"snow-database">>, schema |-> <<"snow-schema">>,
              credentials_provider |-> <<BasicCredentials("snow-user")>>],
             [url |-> <<"snow-url">>, warehouse |-> <<"snow-warehouse">>,
              database |-> <<"snow-database">>, schema |-> <<"snow-schema">>,
              credentials_provider |-> <<>>]}

SampleAccessRules ==
    <<[resource |-> <<"table">>, principals |-> <<>>,
       masking_rule |-> <<[filter |-> <<[expression |-> <<"x > 0">>]>>, mask |-> <<>>]>>]>>

\* maskingRuleSchema declares filter and mask as two optional lists of at most
\* one element, with no ConflictsWith or ExactlyOneOf between them: an element
\* with the mask block alone, and one with both blocks, pass validation too
MaskOnlyAccessRules ==
    <<[resource |-> <<"table">>, principals |-> <<>>,
       masking_rule |-> <<[filter |-> <<>>,
                           mask |-> <<[column |-> <<"email">>,
                                       expression |-> <<"sha2(email)">>]>>]>>]>>

BothAccessRules ==
    <<[resource |-> <<"table">>, principals |-> <<>>,
       masking_rule |-> <<[filter |-> <<[expression |-> <<"x > 0">>]>>,
                           mask |-> <<[column |-> <<"email">>,
                                       expression |-> <<"sha2(email)">>]>>]>>]>>

AccessRuleSamples == {SampleAccessRules, MaskOnlyAccessRules, BothAccessRules}

\* the options of a variant block: unset, or set to one of its samples
BlockOptions(v) == {<<>>} \cup {<<b>> : b \in SampleBlocks(v)}

\* every way to leave each of the first n variant blocks unset or set it to
\* one of its samples
RECURSIVE SourceConfigsUpTo(_)
SourceConfigsUpTo(n) ==
    IF n = 0 THEN {[BlankSource EXCEPT !.name = "src"]}
    ELSE {[c EXCEPT ![SourceBlocks[n]] = b] :
            c \in SourceConfigsUpTo(n - 1), b \in BlockOptions(SourceBlocks[n])}

\* the configurations given to the composer alone: any number of populated
\* blocks, with and without access rules
AnySourceConfigs ==
    SourceConfigsUpTo(Len(SourceBlocks))
    \cup UNION {{[BlankSource EXCEPT !.name = "src",
                                      !.access_rule = rules,
                                      ![v] = b] : b \in BlockOptions(v),
                                                  rules \in AccessRuleSamples} :
                  v \in SourceBlockSet}

\* the variants the lifecycle runs configure
LifecycleBlocks == {"s3", "jdbc"}

\* the configurations that pass the schema's validation: exactly one block
\* (of the file-based samples, the CSV one)
ValidSourceConfigs ==
    UNION {{[BlankSource EXCEPT !.name = "src", !.labels = {"team"},
                                 !.attribute = {[key |-> "owner", value |-> "data"]},
                                 !.access_rule = SampleAccessRules,
                                 ![v] = <<b>>] :
                b \in {x \in SampleBlocks(v) : "file_format" \in DOMAIN x => x.file_format = <<"csv">>}} :
           v \in LifecycleBlocks}

\* a record whose adt_type this provider does not know
UnknownSource == [ZeroSource EXCEPT !.Name = "src", !.Type = "azure", !.Path = "azure-path"]

\* the records another client of the backend may store
ForeignSources ==
    {composeSource(c).source[1] : c \in {x \in ValidSourceConfigs : composeSource(x).err = ""}}
    \cup {UnknownSource}

ValidEntityConfigs ==
    {[BlankEntity EXCEPT !.name = "ent", !.default_column = <<"customer_id">>],
     [BlankEntity EXCEPT !.name = "ent", !.labels = {"team"},
                         !.default_column = <<"customer_id">>,
                         !.required_type = <<"long">>],
     [BlankEntity EXCEPT !.name = "ent", !.labels = {"team"},
                         !.attribute = {[key |-> "owner", value |-> "data"]},
                         !.entities = <<Itoa(1), Itoa(2)>>]}

ForeignEntities ==
    {buildEntity(c) : c \in ValidEntityConfigs}

ClusterNames == {"spark", "preview"}

ForeignClusters == {[ID |-> 0, Name |-> n, Description |-> "cluster"] : n \in ClusterNames}

ForeignObjects(k) ==
    CASE k = "source" -> ForeignSources
      [] k = "entity" -> ForeignEntities
      [] k = "cluster" -> ForeignClusters

\* ------------------------------------------------------------------------
\* The role-mapping runs
\* ------------------------------------------------------------------------

ComposeIdle ==
    /\ composePc = "idle"
    /\ composeIn = <<>>
    /\ composeOut = <<>>
    /\ composeBack = <<>>

TripIdle ==
    /\ tripPc = "idle"
    /\ tripIn = <<>>
    /\ tripMid = <<>>
    /\ tripOut = <<>>

CrudIdle ==
    /\ kind = "none"
    /\ data = <<>>
    /\ store = <<>>
    /\ nextId = 0
    /\ last = <<>>

RolesIdle ==
    /\ rolePc = "idle"
    /\ roleFront = <<>>
    /\ roleBack = <<>>
    /\ roleAgain = <<>>

RolesInit ==
    /\ rolePc = "input"
    /\ roleFront \in SeqsUpTo(RoleInputs, MaxRoles)
    /\ roleBack = <<>>
    /\ roleAgain = <<>>

\* the user resource's compose step: roles of the config -> []Role
MapToBackend ==
    /\ rolePc = "input"
    /\ roleBack' = mapRolesToBackend(roleFront)
    /\ rolePc' = "backend"
    /\ UNCHANGED <<roleFront, roleAgain, composeVars, tripVars, crudVars>>

\* the user resource's flatten step: []Role of the backend -> roles of the state
MapToFrontend ==
    /\ rolePc = "backend"
    /\ roleAgain' = mapRolesToFrontend(roleBack)
    /\ rolePc' = "frontend"
    /\ UNCHANGED <<roleFront, roleBack, composeVars, tripVars, crudVars>>

InitRoles == RolesInit /\ ComposeIdle /\ TripIdle /\ CrudIdle

NextRoles ==
    \/ MapToBackend
    \/ MapToFrontend

SpecRoles == InitRoles /\ [][NextRoles]_vars

\* ------------------------------------------------------------------------
\* The composer runs: composeSource applied to a configuration
\* ------------------------------------------------------------------------

ComposeInit ==
    /\ composePc = "input"
    /\ composeIn \in AnySourceConfigs
    /\ composeOut = <<>>
    /\ composeBack = <<>>

Compose ==
    /\ composePc = "input"
    /\ composeOut' = composeSource(composeIn)
    /\ composePc' = "composed"
    /\ UNCHANGED <<composeIn, composeBack, roleVars, tripVars, crudVars>>

\* resourceSourceRead of the composed record, as the backend returns it for
\* an instance whose state holds nothing yet: the map the parse* function of
\* the record's adt_type builds, and the state after the d.Set calls
FlattenComposed ==
    /\ composePc = "composed"
    /\ composeOut.err = ""
    /\ composeBack' = [key |-> flattenVariant(composeOut.source[1]).key,
                       list |-> flattenVariant(composeOut.source[1]).list]
                      @@ flattenSource(BlankSource, composeOut.source[1])
    /\ composePc' = "flattened"
    /\ UNCHANGED <<composeIn, composeOut, roleVars, tripVars, crudVars>>

InitCompose == ComposeInit /\ RolesIdle /\ TripIdle /\ CrudIdle

NextCompose ==
    \/ Compose
    \/ FlattenComposed

SpecCompose == InitCompose /\ [][NextCompose]_vars

\* ------------------------------------------------------------------------
\* The identifier-list runs: expandIdentifierList applied to the strings of
\* a list-typed field, identifierList applied to the result
\* ------------------------------------------------------------------------

\* the elements a []interface{} of strings may hold: empty, decimal, decimal
\* with a leading zero, and not numeric
IdStrings == {<<>>, <<"7">>, <<"1", "2">>, <<"0", "7">>, <<"x">>}

IdsInit ==
    /\ tripPc = "input"
    /\ tripIn \in SeqsUpTo(IdStrings, MaxIds)
    /\ tripMid = <<>>
    /\ tripOut = <<>>

IdsExpand ==
    /\ tripPc = "input"
    /\ tripMid' = expandIdentifierList(tripIn)
    /\ tripPc' = "there"
    /\ UNCHANGED <<tripIn, tripOut, roleVars, composeVars, crudVars>>

IdsList ==
    /\ tripPc = "there"
    /\ tripOut' = identifierList(tripMid)
    /\ tripPc' = "back"
    /\ UNCHANGED <<tripIn, tripMid, roleVars, composeVars, crudVars>>

InitIds == IdsInit /\ RolesIdle /\ ComposeIdle /\ CrudIdle

NextIds ==
    \/ IdsExpand
    \/ IdsList

SpecIds == InitIds /\ [][NextIds]_vars

\* ------------------------------------------------------------------------
\* The entity runs: resourceEntityRead's d.Set calls applied to a backend
\* record, buildEntity applied to the state they leave
\* ------------------------------------------------------------------------

\* the ids a composite record may list
EntityIds == {1, 2, 13}

\* a requiredType of the wire that is not a JSON string
StructType == [isString |-> FALSE, value |-> "struct"]

\* the Entity records the backend returns: base with defaultColumn and an
\* absent, string or structured requiredType, and composite with entities
WireEntities ==
    {[ZeroEntity EXCEPT !.Name = "ent", !.Type = "base",
                        !.DefaultColumn = <<"customer_id">>,
                        !.RequiredType = t] :
        t \in {<<>>, <<StringType("long")>>, <<StructType>>}}
    \cup {[ZeroEntity EXCEPT !.Name = "ent", !.Type = "composite", !.Entities = <<ids>>] :
            ids \in SeqsUpTo(EntityIds, MaxEntities)}

\* the states a Read may start from: a fresh import, or a state written for
\* a configuration
EntityStates ==
    {[c EXCEPT !.id = Itoa(1)] : c \in {BlankEntity} \cup ValidEntityConfigs}

EntityTripInit ==
    /\ tripPc = "input"
    /\ tripIn \in [entity : WireEntities, state : EntityStates]
    /\ tripMid = <<>>
    /\ tripOut = <<>>

EntityFlatten ==
    /\ tripPc = "input"
    /\ tripMid' = flattenEntity(tripIn.state, tripIn.entity).d
    /\ tripPc' = "there"
    /\ UNCHANGED <<tripIn, tripOut, roleVars, composeVars, crudVars>>

EntityBuild ==
    /\ tripPc = "there"
    /\ tripOut' = buildEntity(tripMid)
    /\ tripPc' = "back"
    /\ UNCHANGED <<tripIn, tripMid, roleVars, composeVars, crudVars>>

InitEntityTrip == EntityTripInit /\ RolesIdle /\ ComposeIdle /\ CrudIdle

NextEntityTrip ==
    \/ EntityFlatten
    \/ EntityBuild

SpecEntityTrip == InitEntityTrip /\ [][NextEntityTrip]_vars

\* ------------------------------------------------------------------------
\* The entity-builder runs: buildEntity applied to any ResourceData the
\* schema's types allow, also one that sets both default_column and entities
\* ------------------------------------------------------------------------

\* default_column and required_type: unset, set to "", set to a value
ColumnOptions == {<<>>, <<"">>, <<"customer_id">>}

TypeOptions == {<<>>, <<"">>, <<"long">>}

\* the elements of an entities list
EntityStrings == {<<"7">>, <<"1", "2">>, <<>>}

AnyEntityConfigs ==
    {[BlankEntity EXCEPT !.name = "ent", !.default_column = c, !.required_type = t,
                         !.entities = e] :
        c \in ColumnOptions, t \in TypeOptions,
        e \in SeqsUpTo(EntityStrings, MaxEntities)}

BuildInit ==
    /\ tripPc = "input"
    /\ tripIn \in AnyEntityConfigs
    /\ tripMid = <<>>
    /\ tripOut = <<>>

BuildEntity ==
    /\ tripPc = "input"
    /\ tripOut' = buildEntity(tripIn)
    /\ tripPc' = "back"
    /\ UNCHANGED <<tripIn, tripMid, roleVars, composeVars, crudVars>>

InitBuild == BuildInit /\ RolesIdle /\ ComposeIdle /\ CrudIdle

NextBuild == BuildEntity

SpecBuild == InitBuild /\ [][NextBuild]_vars

\* ------------------------------------------------------------------------
\* The masking-rule runs: flatternMaskingRules applied to the rules of a
\* backend record, expandMaskingRules applied to what d.Get reads back
\* ------------------------------------------------------------------------

\* the MaskingRule records the backend returns: filter rules carry an
\* expression, mask rules a column and an expression
WireMaskingRules ==
    {[Type |-> "filter", Expression |-> e, Column |-> ""] : e \in {"x > 0", "y = 1"}}
    \cup {[Type |-> "mask", Expression |-> "sha2(email)", Column |-> c] :
            c \in {"email", "phone"}}

MaskingInit ==
    /\ tripPc = "input"
    /\ tripIn \in SeqsUpTo(WireMaskingRules, MaxRules)
    /\ tripMid = <<>>
    /\ tripOut = <<>>

MaskingFlatten ==
    /\ tripPc = "input"
    /\ tripMid' = GetList(flatternMaskingRules(tripIn))
    /\ tripPc' = "there"
    /\ UNCHANGED <<tripIn, tripOut, roleVars, composeVars, crudVars>>

MaskingExpand ==
    /\ tripPc = "there"
    /\ tripOut' = expandMaskingRules(tripMid)
    /\ tripPc' = "back"
    /\ UNCHANGED <<tripIn, tripMid, roleVars, composeVars, crudVars>>

InitMasking == MaskingInit /\ RolesIdle /\ ComposeIdle /\ CrudIdle

NextMasking ==
    \/ MaskingFlatten
    \/ MaskingExpand

SpecMasking == InitMasking /\ [][NextMasking]_vars

\* ------------------------------------------------------------------------
\* The lifecycle runs: one resource instance, the plugin host calling its
\* handlers, and the backend's collection of its type
\* ------------------------------------------------------------------------

Blank(k) ==
    CASE k = "source" -> BlankSource
      [] k = "entity" -> BlankEntity
      [] k = "cluster" -> BlankCluster

Backends == {"ok", "fail"}

\* the host hands Create and Update the planned configuration under the
\* instance's id
Plan(config) == [config EXCEPT !.id = data.id]

\* a handler call: what it leaves behind
Handled(op, before, out) ==
    /\ data' = out.d
    /\ store' = out.store
    /\ nextId' = out.nextId
    /\ last' = [op |-> op, err |-> out.err, calls |-> out.calls, before |-> before,
                prior |-> [op |-> last.op, err |-> last.err]]
    /\ UNCHANGED <<kind, roleVars, composeVars, tripVars>>

CrudInit ==
    /\ kind \in {"source", "entity", "cluster"}
    /\ data = Blank(kind)
    /\ store = [n \in 1..MaxId |-> <<>>]
    /\ nextId = 1
    /\ last = [op |-> "none", err |-> "", calls |-> <<>>, before |-> Blank(kind),
               prior |-> [op |-> "none", err |-> ""]]

\* the host calls Create only for an instance without an id
SourceCreate ==
    /\ kind = "source"
    /\ data.id = <<>>
    /\ \E config \in ValidSourceConfigs, resp \in Backends :
        /\ resp = "ok" => nextId <= MaxId
        /\ Handled("create", Plan(config),
                   resourceSourceCreate(Plan(config), store, nextId, resp))

\* the host calls Read, Update and Delete only for an instance with an id
SourceRead ==
    /\ kind = "source"
    /\ data.id # <<>>
    /\ \E resp \in Backends :
        Handled("read", data, resourceSourceRead(data, store, nextId, resp))

SourceUpdate ==
    /\ kind = "source"
    /\ data.id # <<>>
    /\ \E config \in ValidSourceConfigs, resp \in Backends :
        Handled("update", Plan(config),
                resourceSourceUpdate(Plan(config), store, nextId, resp))

SourceDelete ==
    /\ kind = "source"
    /\ data.id # <<>>
    /\ \E resp \in Backends :
        Handled("delete", data, resourceSourceDelete(data, store, nextId, resp))

EntityCreate ==
    /\ kind = "entity"
    /\ data.id = <<>>
    /\ \E config \in ValidEntityConfigs, resp \in Backends :
        /\ resp = "ok" => nextId <= MaxId
        /\ Handled("create", Plan(config),
                   resourceEntityCreate(Plan(config), store, nextId, resp))

EntityRead ==
    /\ kind = "entity"
    /\ data.id # <<>>
    /\ \E resp \in Backends :
        Handled("read", data, resourceEntityRead(data, store, nextId, resp))

EntityUpdate ==
    /\ kind = "entity"
    /\ data.id # <<>>
    /\ \E config \in ValidEntityConfigs, resp \in Backends :
        Handled("update", Plan(config),
                resourceEntityUpdate(Plan(config), store, nextId, resp))

EntityDelete ==
    /\ kind = "entity"
    /\ data.id # <<>>
    /\ \E resp \in Backends :
        Handled("delete", data, resourceEntityDelete(data, store, nextId, resp))

\* a data source is read from its configuration alone
ClusterRead ==
    /\ kind = "cluster"
    /\ \E name \in ClusterNames, resp \in Backends :
        LET fresh == [BlankCluster EXCEPT !.name = name]
        IN  Handled("read", fresh, dataSourceClusterRead(fresh, store, nextId, resp))

\* schema.ImportStatePassthrough: a state holding the given id and nothing else
ImportState ==
    /\ kind \in {"source", "entity"}
    /\ data.id = <<>>
    /\ \E n \in 1..MaxId :
        /\ data' = [Blank(kind) EXCEPT !.id = Itoa(n)]
        /\ last' = [op |-> "import", err |-> "", calls |-> <<>>, before |-> data,
                    prior |-> [op |-> last.op, err |-> last.err]]
    /\ UNCHANGED <<kind, store, nextId, roleVars, composeVars, tripVars>>

\* another client of the backend creates, edits or removes an object
BackendCreate ==
    /\ kind # "none"
    /\ nextId <= MaxId
    /\ \E object \in ForeignObjects(kind) :
        store' = [store EXCEPT ![nextId] = <<[object EXCEPT !.ID = nextId]>>]
    /\ nextId' = nextId + 1
    /\ UNCHANGED <<kind, data, last, roleVars, composeVars, tripVars>>

BackendEdit ==
    /\ kind # "none"
    /\ \E n \in 1..MaxId, object \in ForeignObjects(kind) :
        /\ Len(store[n]) > 0
        /\ store' = [store EXCEPT ![n] = <<[object EXCEPT !.ID = n]>>]
    /\ UNCHANGED <<kind, data, nextId, last, roleVars, composeVars, tripVars>>

BackendRemove ==
    /\ kind # "none"
    /\ \E n \in 1..MaxId :
        /\ Len(store[n]) > 0
        /\ store' = [store EXCEPT ![n] = <<>>]
    /\ UNCHANGED <<kind, data, nextId, last, roleVars, composeVars, tripVars>>

Init == CrudInit /\ RolesIdle /\ ComposeIdle /\ TripIdle

Next ==
    \/ SourceCreate
    \/ SourceRead
    \/ SourceUpdate
    \/ SourceDelete
    \/ EntityCreate
    \/ EntityRead
    \/ EntityUpdate
    \/ EntityDelete
    \/ ClusterRead
    \/ ImportState
    \/ BackendCreate
    \/ BackendEdit
    \/ BackendRemove

Spec == Init /\ [][Next]_vars

\* ------------------------------------------------------------------------
\* Claims
\* ------------------------------------------------------------------------

\* the adt_type values of Source records this provider knows (spec, section 6)
KnownSourceTags ==
    {"s3", "s3a", "jdbc", "hive", "bigquery", "gcs", "local", "hdfs", "kafka",
     "snowflake"}

\* the order in which the claims say the variant blocks are scanned
ScanOrder ==
    <<"s3", "s3a", "jdbc", "hive", "big_query", "gcs", "local", "hdfs", "kafka",
      "snowflake">>

\* the adt_type of a variant block
TagOf(v) == IF v = "big_query" THEN "bigquery" ELSE v

\* the last handler call was operation op of a Source or an Entity
LastWas(op) == kind \in {"source", "entity"} /\ last.op = op

\* s is the decimal string form of the integer n >= 0
IsDecimalOf(s, n) ==
    /\ Len(s) > 0
    /\ \A i \in DOMAIN s : IsDigit(s[i])
    /\ Len(s) > 1 => s[1] # "0"
    /\ DigitsValue(s) = n

\* C1: role mapping round-trips without loss: for every list of tokens drawn
\* from validRoles(), mapRolesToFrontend(mapRolesToBackend(list)) is the same
\* list in the same order.
C1_RoleRoundTrip ==
    (rolePc = "frontend" /\ \A i \in DOMAIN roleFront : roleFront[i] \in ValidRoleSet)
        => roleAgain = roleFront

\* C2: a Source Read of a record whose adt_type is not one of the known
\* variant tags always returns an error.
C2_UnknownTagFails ==
    (/\ kind = "source"
     /\ last.op = "read"
     /\ Len(last.calls[1].reply) = 1
     /\ last.calls[1].reply[1].Type \notin KnownSourceTags)
        => last.err # ""

\* C3: after a successful Source Read of a record of a known adt_type,
\* exactly the block matching the record's discriminator is populated in
\* state and every sibling variant block is empty.
C3_OnlyMatchingBlock ==
    (/\ kind = "source"
     /\ last.op = "read"
     /\ last.err = ""
     /\ Len(last.calls[1].reply) = 1
     /\ last.calls[1].reply[1].Type \in KnownSourceTags)
        => \A i \in DOMAIN ScanOrder :
              (Len(data[ScanOrder[i]]) > 0)
                  <=> (TagOf(ScanOrder[i]) = last.calls[1].reply[1].Type)

C5_ReadMissingClearsId ==
    (/\ kind \in {"source", "entity", "cluster"}
     /\ last.op = "read"
     /\ last.calls[1].status = "not_found")
        => /\ last.err = ""
           /\ data = [last.before EXCEPT !.id = <<>>]

\* C5 witness: a Source with an id and a populated block was read and found
\* missing
C5_Witness ==
    /\ kind = "source"
    /\ last.op = "read"
    /\ last.calls[1].status = "not_found"
    /\ last.before.id # <<>>
    /\ Len(last.before.s3) > 0
    /\ data.id = <<>>

\* C6: in the Source Create and Update, if composeSource fails then no
\* backend call is issued, the operation returns a non-nil error and the id
\* is unchanged.
C6_ComposeBeforeNetwork ==
    (/\ kind = "source"
     /\ last.op \in {"create", "update"}
     /\ composeSource(last.before).err # "")
        => /\ last.calls = <<>>
           /\ last.err # ""
           /\ data.id = last.before.id

\* C6 witness: an Update of an existing Source whose composition failed
C6_Witness ==
    /\ kind = "source"
    /\ last.op = "update"
    /\ composeSource(last.before).err # ""
    /\ data.id # <<>>
    /\ last.err # ""

\* C7: on a successful Create (Source or Entity) the id is the decimal string
\* of the ID of the object the backend returned, the one backend call having
\* returned without error; a Create that fails leaves the id as it was.
C7_CreateSetsId ==
    LastWas("create") =>
        IF last.err = ""
        THEN /\ Len(last.calls) = 1
             /\ last.calls[1].status = "ok"
             /\ IsDecimalOf(data.id, last.calls[1].reply[1].ID)
        ELSE data.id = last.before.id

\* C7 witness: an Entity was created as the backend's second object
C7_Witness ==
    /\ kind = "entity"
    /\ last.op = "create"
    /\ last.err = ""
    /\ last.calls[1].reply[1].ID = 2
    /\ data.id = <<"2">>

\* C8: Update recomposes the record from the current config and, when that
\* succeeds, issues exactly one backend update call keyed by the existing id
\* with that record; it never changes the id.
C8_UpdateKeyedById ==
    LastWas("update") =>
        /\ data.id = last.before.id
        /\ kind = "source" =>
              LET composed == composeSource(last.before)
              IN  composed.err = "" =>
                     /\ Len(last.calls) = 1
                     /\ last.calls[1].fn = "UpdateSource"
                     /\ last.calls[1].id = last.before.id
                     /\ last.calls[1].body = composed.source
        /\ kind = "entity" =>
              /\ Len(last.calls) = 1
              /\ last.calls[1].fn = "UpdateEntity"
              /\ last.calls[1].id = last.before.id
              /\ last.calls[1].body = <<buildEntity(last.before)>>

\* C8 witness: a successful Update of an Entity to a composite one
C8_Witness ==
    /\ kind = "entity"
    /\ last.op = "update"
    /\ last.err = ""
    /\ last.calls[1].body[1].Type = "composite"
    /\ data.id # <<>>

\* C9: over the Create/Read/Update/Delete calls of a Source or Entity the id
\* goes from empty to non-empty only through a successful Create, goes back
\* to empty only through a Read that finds the object missing, and is never
\* replaced by a different non-empty id.
C9_Lifecycle ==
    [][(kind \in {"source", "entity"}
            /\ last'.op \in {"create", "read", "update", "delete"})
        => /\ (data.id = <<>> /\ data'.id # <<>>)
                 => (last'.op = "create" /\ last'.err = "")
           /\ (data.id # <<>> /\ data'.id = <<>>)
                 => (/\ last'.op = "read"
                     /\ last'.err = ""
                     /\ last'.calls[1].status = "not_found")
           /\ (data.id # <<>> /\ data'.id # <<>>) => data'.id = data.id]_vars

\* C9 witness: after a successful Delete, a Read found the object missing and
\* cleared the id
C9_Witness ==
    /\ kind = "source"
    /\ last.op = "read"
    /\ last.prior.op = "delete"
    /\ last.prior.err = ""
    /\ last.before.id # <<>>
    /\ data.id = <<>>

\* the variant blocks of a config that are populated, in scan order
PopulatedAt(config) == {i \in DOMAIN ScanOrder : Len(config[ScanOrder[i]]) > 0}

FirstPopulated(config) ==
    ScanOrder[CHOOSE i \in PopulatedAt(config) : \A j \in PopulatedAt(config) : i <= j]

\* the config with every variant block but v unset
OnlyBlock(config, v) ==
    [k \in DOMAIN config |->
        IF k \in {ScanOrder[i] : i \in DOMAIN ScanOrder} /\ k # v THEN <<>>
        ELSE config[k]]

\* C10: composeSource scans the blocks in the order s3, s3a, jdbc, hive,
\* big_query, gcs, local, hdfs, kafka, snowflake and the first populated one
\* wins: with two or more populated blocks the result is the one composed
\* from the earliest populated block alone, its adt_type is that block's,
\* and nothing of a later block is in it.
C10_FirstPopulatedWins ==
    (composePc = "composed" /\ Cardinality(PopulatedAt(composeIn)) >= 2)
        => /\ composeOut = composeSource(OnlyBlock(composeIn, FirstPopulated(composeIn)))
           /\ Len(composeOut.source) = 1
                 => composeOut.source[1].Type = TagOf(FirstPopulated(composeIn))

\* C10 witness: hive and gcs (and nothing before hive) are populated and the
\* record is the hive one, without the gcs bucket
C10_Witness ==
    /\ composePc = "composed"
    /\ PopulatedAt(composeIn) = {4, 6}
    /\ Len(composeOut.source) = 1
    /\ composeOut.source[1].Type = "hive"
    /\ composeOut.source[1].Database = "hive-database"
    /\ composeOut.source[1].Bucket = ""

\* C11: a masking_rule element with both the filter block and the mask block
\* populated, which the schema does not reject, is composed into exactly one
\* MaskingRule, of the first-priority variant (filter); never into output
\* derived from both blocks.
C11_OneRulePerElement ==
    (composePc = "composed" /\ composeOut.err = "")
        => \A k \in DOMAIN composeIn.access_rule :
              LET elements == composeIn.access_rule[k].masking_rule
                  rules == composeOut.source[1].AccessRules[k].MaskingRules
              IN  (Len(elements) = 1 /\ Len(elements[1].filter) = 1
                                     /\ Len(elements[1].mask) = 1)
                      => (Len(rules) = 1 /\ rules[1].Type = "filter")

\* C12: with none of the ten variant blocks populated composeSource returns
\* no Source and the error "Invalid source type", never a Source with an
\* empty or default adt_type.
C12_NoVariantSelected ==
    (composePc = "composed" /\ PopulatedAt(composeIn) = {})
        => /\ composeOut.source = <<>>
           /\ composeOut.err = "Invalid source type"

\* C12 witness: a config with a name and access rules but no variant block
\* was composed and refused
C12_Witness ==
    /\ composePc = "composed"
    /\ PopulatedAt(composeIn) = {}
    /\ composeIn.name = "src"
    /\ composeIn.access_rule # <<>>
    /\ composeOut.source = <<>>
    /\ composeOut.err = "Invalid source type"

\* C13: a populated jdbc or snowflake block without the optional nested
\* credentials_provider block is not an error: composeSource succeeds and the
\* record's credentialsProvider is null.
C13_CredentialsOptional ==
    (/\ composePc = "composed"
     /\ PopulatedAt(composeIn) # {}
     /\ FirstPopulated(composeIn) \in {"jdbc", "snowflake"}
     /\ composeIn[FirstPopulated(composeIn)][1].credentials_provider = <<>>)
        => /\ composeOut.err = ""
           /\ Len(composeOut.source) = 1
           /\ composeOut.source[1].CredentialsProvider = <<>>

\* the variant blocks whose records carry a fileFormat
FileBlocks == {"s3", "s3a", "gcs", "local", "hdfs"}

\* the CSV sub-fields of the wire's fileFormat other than sep
CsvOtherFields ==
    {"QuoteAll", "IncludeHeader", "EmptyValue", "Compression", "DateFormat",
     "TimestampFormat", "IgnoreLeadingWhiteSpace", "IgnoreTrailingWhiteSpace",
     "LineSep"}

\* C14: flatten produces a value for every declared field of the selected
\* variant's block: for every file-based record and every file format (csv,
\* orc, parquet) the flattened block has an entry, possibly null, for each
\* declared field, the ten CSV option fields included.
C14_EveryFieldFilled ==
    (composePc = "flattened" /\ composeBack.key \in FileBlocks)
        => /\ Len(composeBack.list) = 1
           /\ BlockFields(composeBack.key) \subseteq DOMAIN composeBack.list[1]

\* C15: for a config with exactly one populated variant block, flattening
\* the record composeSource made of it yields the same variant block with the
\* same field values, the optional CSV fields left unset included.
C15_SourceRoundTrip ==
    (composePc = "flattened" /\ Cardinality(PopulatedAt(composeIn)) = 1)
        => /\ composeBack.err = ""
           /\ composeBack.key = FirstPopulated(composeIn)
           /\ composeBack.d[composeBack.key] = composeIn[composeBack.key]

\* C17: an S3 block that sets only bucket, path, file_format = "csv" and
\* field_separator composes to adt_type "s3" with that bucket and path and a
\* fileFormat of adt_type "csv" whose sep is the separator and whose other
\* CSV sub-fields are all null; for a file_format other than csv every CSV
\* sub-field is null whatever the block holds.
C17_S3CsvExample ==
    (composePc = "composed" /\ PopulatedAt(composeIn) # {}
        /\ FirstPopulated(composeIn) \in FileBlocks)
        => LET v == FirstPopulated(composeIn)
               block == composeIn[v][1]
               source == composeOut.source[1]
               fileFormat == source.FileFormat[1]
           IN  /\ (/\ v = "s3"
                    /\ block.file_format = <<"csv">>
                    /\ block.field_separator # <<>>
                    /\ \A k \in FileOptionFields \ {"field_separator"} : block[k] = <<>>)
                      => /\ source.Type = "s3"
                         /\ <<source.Bucket>> = block.bucket
                         /\ <<source.Path>> = block.path
                         /\ fileFormat.Type = "csv"
                         /\ fileFormat.Sep = block.field_separator
                         /\ \A k \in CsvOtherFields : fileFormat[k] = <<>>
               /\ block.file_format # <<"csv">>
                      => \A k \in CsvOtherFields \cup {"Sep"} : fileFormat[k] = <<>>

\* C16: buildEntity applied to the state resourceEntityRead writes for a
\* backend Entity record (base with an absent, string or structured
\* requiredType, or composite) yields a record equal to the original in
\* adt_type, defaultColumn, requiredType and entities.
C16_EntityRoundTrip ==
    tripPc = "back"
        => /\ tripOut.Type = tripIn.entity.Type
           /\ tripOut.DefaultColumn = tripIn.entity.DefaultColumn
           /\ tripOut.RequiredType = tripIn.entity.RequiredType
           /\ tripOut.Entities = tripIn.entity.Entities

\* C18: flattening a composite Entity sets entities to the decimal strings of
\* the ids in the same order and default_column and required_type to null,
\* whatever the state held before; flattening a base Entity sets entities to
\* null.
C18_CompositeFlatten ==
    tripPc \in {"there", "back"}
        => LET entity == tripIn.entity
           IN  /\ Len(entity.Entities) = 1
                    => /\ Len(tripMid.entities) = Len(entity.Entities[1])
                       /\ \A i \in DOMAIN tripMid.entities :
                             IsDecimalOf(tripMid.entities[i], entity.Entities[1][i])
                       /\ tripMid.default_column = <<>>
                       /\ tripMid.required_type = <<>>
               /\ (Len(entity.DefaultColumn) = 1 /\ Len(entity.Entities) = 0)
                    => tripMid.entities = <<>>

\* C18 witness: a composite record listing 13 and 2 was flattened into a
\* state that held a default column and a required type
C18_Witness ==
    /\ tripPc = "there"
    /\ tripIn.state.default_column = <<"customer_id">>
    /\ tripIn.state.required_type = <<"long">>
    /\ tripIn.entity.Entities = << <<13, 2>> >>
    /\ tripMid.entities = << <<"1", "3">>, <<"2">> >>
    /\ tripMid.default_column = <<>>
    /\ tripMid.required_type = <<>>

\* strconv.Atoi accepts the string
Parseable(s) == Atoi(s).err = ""

\* the element is kept by the test `ok && val != ""`
NonEmpty(s) == s # <<>>

\* C19: expandIdentifierList skips non-numeric and empty entries: its result
\* holds exactly the integer values of the elements parseable as integers,
\* an empty or unparseable element contributes nothing, no error is raised.
C19_SkipsUnparseable ==
    tripPc \in {"there", "back"}
        => LET kept == SelectSeq(tripIn, Parseable)
           IN  tripMid = [i \in DOMAIN kept |-> Atoi(kept[i]).n]

\* C20: order is preserved: the i-th string identifierList returns is the
\* decimal form of the i-th integer, and expandIdentifierList returns the
\* values of the elements it retains (the non-empty ones) in input order,
\* neither reordered nor deduplicated.
C20_OrderPreserved ==
    /\ tripPc \in {"there", "back"}
          => LET kept == SelectSeq(tripIn, NonEmpty)
             IN  /\ Len(tripMid) = Len(kept)
                 /\ \A i \in DOMAIN kept : tripMid[i] = Atoi(kept[i]).n
    /\ tripPc = "back"
          => /\ Len(tripOut) = Len(tripMid)
             /\ \A i \in DOMAIN tripMid : IsDecimalOf(tripOut[i], tripMid[i])

\* C20 witness: "12", "", "7" became 12, 7 and then "12", "7"
C20_Witness ==
    /\ tripPc = "back"
    /\ tripIn = << <<"1", "2">>, <<>>, <<"7">> >>
    /\ tripMid = <<12, 7>>
    /\ tripOut = << <<"1", "2">>, <<"7">> >>

\* the backend tokens of the fixed table: what mapRolesToBackend emits for the
\* sixteen tokens of validRoles()
BackendRoleSet == {roleToBackend(v)[1] : v \in ValidRoleSet}

InFrontendTable(v) == v \in ValidRoleSet

InBackendTable(t) == t \in BackendRoleSet

\* C21: role tokens absent from the fixed table are dropped silently in both
\* directions: each mapping emits exactly one output token per input token
\* that is in the table, in input order, and nothing for any other token, so
\* the output length is the number of recognised input tokens.
C21_UnknownRolesDropped ==
    /\ rolePc \in {"backend", "frontend"}
          => LET kept == SelectSeq(roleFront, InFrontendTable)
             IN  /\ Len(roleBack) = Len(kept)
                 /\ \A i \in DOMAIN kept : <<roleBack[i]>> = roleToBackend(kept[i])
    /\ rolePc = "frontend"
          => LET kept == SelectSeq(roleBack, InBackendTable)
             IN  /\ Len(roleAgain) = Len(kept)
                 /\ \A i \in DOMAIN kept :
                       roleToBackend(roleAgain[i]) = <<kept[i]>>

\* the config holding the variant block v alone, set to block
OneBlock(v, block) == [BlankSource EXCEPT !.name = "src", ![v] = <<block>>]

\* C22: variant selection is 1:1 with the discriminator: composeSource emits
\* exactly the ten adt_type values, one per config block (big_query as
\* bigquery, every other block under its own name), and for each of them
\* resourceSourceRead populates the block composeSource maps to that tag and
\* no other block in that call.
C22_OneTagPerBlock ==
    /\ \A v \in SourceBlockSet :
          \E block \in SampleBlocks(v) :
              /\ composeSource(OneBlock(v, block)).err = ""
              /\ composeSource(OneBlock(v, block)).source[1].Type = TagOf(v)
    /\ \A v, w \in SourceBlockSet : TagOf(v) = TagOf(w) => v = w
    /\ (composePc \in {"composed", "flattened"} /\ composeOut.err = "")
          => /\ composeOut.source[1].Type \in KnownSourceTags
             /\ composeOut.source[1].Type = TagOf(FirstPopulated(composeIn))
    /\ composePc = "flattened"
          => /\ composeBack.err = ""
             /\ TagOf(composeBack.key) = composeOut.source[1].Type
             /\ composeBack.key = FirstPopulated(composeIn)
             /\ Len(composeBack.d[composeBack.key]) = 1
             /\ \A v \in SourceBlockSet \ {composeBack.key} : composeBack.d[v] = <<>>

\* C22 witness: a big_query block went out as adt_type bigquery and came back
\* as the big_query block, every other block staying empty
C22_Witness ==
    /\ composePc = "flattened"
    /\ PopulatedAt(composeIn) = {5}
    /\ composeOut.source[1].Type = "bigquery"
    /\ composeBack.key = "big_query"
    /\ composeBack.d.big_query = <<[path |-> <<"bq-path">>]>>
    /\ \A v \in SourceBlockSet \ {"big_query"} : composeBack.d[v] = <<>>

\* the Create, Read, Update and Delete operations
CrudOps == {"create", "read", "update", "delete"}

\* C23: nothing is retried or recovered locally: each Create, Read, Update
\* or Delete issues at most one backend call, and when that call returns an
\* error the operation returns that same error without a further call.
C23_NoRetry ==
    (kind \in {"source", "entity"} /\ last.op \in CrudOps)
        => /\ Len(last.calls) <= 1
           /\ (Len(last.calls) = 1 /\ last.calls[1].status = "error")
                 => last.err = BackendError
           /\ (Len(last.calls) = 1 /\ last.calls[1].status = "not_found"
                                    /\ last.op = "update")
                 => last.err = "status: 404"

\* C23 witness: a Read of a Source that exists on the backend failed in
\* transport: one GetSource call, its error returned
C23_Witness ==
    /\ kind = "source"
    /\ last.op = "read"
    /\ Found(store, last.before.id) # {}
    /\ Len(last.calls) = 1
    /\ last.calls[1].fn = "GetSource"
    /\ last.calls[1].status = "error"
    /\ last.err = BackendError

\* C25: import populates full state from a Read: from a state holding only
\* an id (passthrough import) of an existing Source or Entity, one successful
\* Read sets name, description, labels, attribute, for Sources access_rule,
\* and the variant fields of the record's discriminator, and keeps the id
\* equal to the imported string.
C25_ImportThenRead ==
    (/\ kind \in {"source", "entity"}
     /\ last.op = "read"
     /\ last.prior.op = "import"
     /\ last.err = ""
     /\ last.calls[1].status = "ok")
        => LET record == last.calls[1].reply[1]
           IN  /\ data.id = last.before.id
               /\ data.name = record.Name
               /\ data.description = record.Description
               /\ data.labels = record.Labels
               /\ data.attribute = {[key |-> a.Key, value |-> a.Value] : a \in record.Attributes}
               /\ kind = "source"
                     => /\ Len(data.access_rule) = Len(record.AccessRules)
                        /\ \A i \in DOMAIN data.access_rule :
                              data.access_rule[i].resource = <<record.AccessRules[i].Resource>>
                        /\ record.Type \in KnownSourceTags
                              => \E v \in SourceBlockSet :
                                    TagOf(v) = record.Type /\ Len(data[v]) = 1
                        /\ record.Type = "s3"
                              => /\ data.s3[1].bucket = <<record.Bucket>>
                                 /\ data.s3[1].path = <<record.Path>>
                                 /\ data.s3[1].file_format = <<record.FileFormat[1].Type>>
                                 /\ data.s3[1].field_separator = record.FileFormat[1].Sep
                        /\ record.Type = "jdbc"
                              => /\ data.jdbc[1].url = <<record.URL>>
                                 /\ data.jdbc[1].schema = <<record.Schema>>
                                 /\ Len(data.jdbc[1].credentials_provider) = 1
               /\ kind = "entity"
                     => /\ Len(record.DefaultColumn) = 1
                              => /\ data.default_column = record.DefaultColumn
                                 /\ Len(record.RequiredType) = 1
                                       => data.required_type = <<record.RequiredType[1].value>>
                        /\ Len(record.Entities) = 1
                              => /\ Len(data.entities) = Len(record.Entities[1])
                                 /\ \A i \in DOMAIN data.entities :
                                       IsDecimalOf(data.entities[i], record.Entities[1][i])

\* C25 witness: a jdbc Source another client created was imported by id and
\* read: the state, which held the id alone, now holds the record
C25_Witness ==
    /\ kind = "source"
    /\ last.op = "read"
    /\ last.prior.op = "import"
    /\ last.err = ""
    /\ last.before = [BlankSource EXCEPT !.id = data.id]
    /\ data.id # <<>>
    /\ data.name = "src"
    /\ data.labels = {"team"}
    /\ data.attribute = {[key |-> "owner", value |-> "data"]}
    /\ Len(data.access_rule) = 1
    /\ Len(data.jdbc) = 1
    /\ data.jdbc[1].url = <<"jdbc-url">>

\* the backend call of the last operation returned an error
CallFailed ==
    /\ Len(last.calls) = 1
    /\ \/ last.calls[1].status = "error"
       \/ last.op = "update" /\ last.calls[1].status = "not_found"

\* C27: a failed backend call changes no local state: when the backend call
\* of a Read, Create, Update or Delete returns an error, the operation returns
\* it with the id and every attribute as they were given to it; after a
\* failed Create the id is still empty.
C27_FailedCallFrame ==
    (kind \in {"source", "entity"} /\ last.op \in CrudOps /\ CallFailed)
        => /\ last.err # ""
           /\ data = last.before
           /\ last.op = "create" => data.id = <<>>

\* C27 witness: a Read of a Source whose GetSource call failed left the id
\* and the attributes of the state as they were
C27_Witness ==
    /\ kind = "source"
    /\ last.op = "read"
    /\ CallFailed
    /\ last.err = BackendError
    /\ data = last.before
    /\ data.id # <<>>
    /\ data.name = "src"

\* C26: buildEntity always yields exactly one variant: exactly one of
\* DefaultColumn and Entities is non-nil; adt_type is "base" iff
\* default_column is a non-empty string (then Entities is nil even when the
\* config lists entities) and "composite" otherwise (then DefaultColumn and
\* RequiredType are nil and Entities may be the empty list); RequiredType is
\* non-nil only for base with required_type set.
C26_OneEntityVariant ==
    tripPc = "back"
        => LET base == Len(tripIn.default_column) = 1 /\ tripIn.default_column[1] # ""
           IN  /\ (Len(tripOut.DefaultColumn) = 1) # (Len(tripOut.Entities) = 1)
               /\ tripOut.Type = "base" <=> base
               /\ tripOut.Type \in {"base", "composite"}
               /\ base => /\ tripOut.DefaultColumn = tripIn.default_column
                           /\ tripOut.Entities = <<>>
               /\ ~base => /\ tripOut.DefaultColumn = <<>>
                            /\ tripOut.RequiredType = <<>>
                            /\ Len(tripOut.Entities) = 1
               /\ Len(tripOut.RequiredType) = 1
                     => /\ base
                        /\ Len(tripIn.required_type) = 1
                        /\ tripIn.required_type[1] # ""
                        /\ tripOut.RequiredType[1].value = tripIn.required_type[1]

\* C26 witness: a config with a default column, a required type and two
\* entities was built as a base Entity without entities
C26_Witness ==
    /\ tripPc = "back"
    /\ tripIn.default_column = <<"customer_id">>
    /\ tripIn.required_type = <<"long">>
    /\ Len(tripIn.entities) = 2
    /\ tripOut.Type = "base"
    /\ tripOut.DefaultColumn = <<"customer_id">>
    /\ Len(tripOut.RequiredType) = 1
    /\ tripOut.Entities = <<>>

\* the string matches identifierPattern, ^[0-9]+$
MatchesIdentifierPattern(s) == Len(s) > 0 /\ \A i \in DOMAIN s : IsDigit(s[i])

\* C28: the identifier list codec round-trips:
\* expandIdentifierList(identifierList(ints)) = ints for every list of
\* integers, and identifierList(expandIdentifierList(strs)) = strs for every
\* list of strings matching ^[0-9]+$, strings with leading zeros included.
C28_IdCodecRoundTrip ==
    /\ tripPc \in {"there", "back"}
          => expandIdentifierList(identifierList(tripMid)) = tripMid
    /\ (tripPc = "back" /\ \A i \in DOMAIN tripIn : MatchesIdentifierPattern(tripIn[i]))
          => tripOut = tripIn

\* C29: expandIdentifierList returns exactly one integer per input element
\* that is a non-empty string, so its length is the count of those elements;
\* only the empty string (or an element that is no string) is omitted.
C29_OnePerNonEmpty ==
    tripPc \in {"there", "back"}
        => Len(tripMid) = Cardinality({i \in DOMAIN tripIn : tripIn[i] # <<>>})

\* C29 witness: "x", "" and "7" gave two integers, one for "x" and one for "7"
C29_Witness ==
    /\ tripPc = "there"
    /\ tripIn = << <<"x">>, <<>>, <<"7">> >>
    /\ Len(tripMid) = 2
    /\ tripMid[2] = 7

\* C30: masking-rule lists keep their length and order across the round
\* trip: expandMaskingRules(flatternMaskingRules(rules)) has the same length
\* and the same adt_type, expression and column at each position;
\* flatternMaskingRules emits one element per rule, and expandMaskingRules
\* one rule per config element with exactly one of filter/mask populated.
C30_MaskingRoundTrip ==
    /\ tripPc \in {"there", "back"} => Len(tripMid) = Len(tripIn)
    /\ tripPc = "back"
          => /\ Len(tripOut) = Len(tripIn)
             /\ \A i \in DOMAIN tripIn :
                   /\ tripOut[i].Type = tripIn[i].Type
                   /\ tripOut[i].Expression = tripIn[i].Expression
                   /\ tripOut[i].Column = tripIn[i].Column
             /\ Len(tripOut) =
                   Cardinality({i \in DOMAIN tripMid :
                                   Len(tripMid[i].filter) + Len(tripMid[i].mask) = 1})

\* C30 witness: a mask rule, a filter rule and the same mask rule again went
\* through state and came back as they were
C30_Witness ==
    /\ tripPc = "back"
    /\ Len(tripIn) = 3
    /\ tripIn[1].Type = "mask" /\ tripIn[1].Column = "phone"
    /\ tripIn[2].Type = "filter"
    /\ tripIn[3] = tripIn[1]
    /\ Len(tripMid[1].mask) = 1 /\ Len(tripMid[1].filter) = 0
    /\ tripOut = tripIn

====
